---- MODULE Spec2Model ----
(***************************************************************************)
(* Model of the indexing and retrieval core of the note assistant plugin:  *)
(* the text splitter, the chunk registry (ChunkManager), the vector store  *)
(* (VectorStore) and the embedding coordinator (EmbeddingManager).         *)
(*                                                                         *)
(* Strings are sequences of one-character strings, so that startsWith,     *)
(* split, trim and the content hash are computed as the code computes      *)
(* them.  A JavaScript Map is a sequence of [k, v] entries in insertion    *)
(* order.  Document paths contain no "::" (the separator of a chunk id).   *)
(***************************************************************************)
EXTENDS Integers, Sequences, FiniteSets, TLC

VARIABLES chunksByFile, privacy, vectors, isDirty, excludedFolders, disk,
          apiKey, settings, ragEngine, em, sv, ret,
          splitter, input, debounced

vars == <<chunksByFile, privacy, vectors, isDirty, excludedFolders, disk,
          apiKey, settings, ragEngine, em, sv, ret, splitter, input, debounced>>

(***************************************************************************)
(* Bounds of the model.  The plugin runs with chunkSize 1000, chunkOverlap *)
(* 200 and batchSize 20; the model scales them down.                       *)
(***************************************************************************)
ChunkSize == 4

ChunkOverlap == 1

BatchSize == 2

MaxLimit == 3

(***************************************************************************)
(* Strings                                                                 *)
(***************************************************************************)
Min(a, b) == IF a <= b THEN a ELSE b

\* s.slice(from, to) with 0-based from and exclusive to, both clamped
Slice(s, from, to) == SubSeq(s, Min(from, Len(s)) + 1, Min(to, Len(s)))

\* s.startsWith(p)
StartsWith(s, p) == Len(p) <= Len(s) /\ SubSeq(s, 1, Len(p)) = p

\* s.endsWith(p)
EndsWith(s, p) == Len(p) <= Len(s) /\ SubSeq(s, Len(s) - Len(p) + 1, Len(s)) = p

\* s.includes(p)
Includes(s, p) == \E i \in 1..(Len(s) - Len(p) + 1) : SubSeq(s, i, i + Len(p) - 1) = p

WhiteSpace == {" ", "\n", "\t"}

RECURSIVE TrimStart(_)
TrimStart(s) == IF s # <<>> /\ Head(s) \in WhiteSpace THEN TrimStart(Tail(s)) ELSE s

RECURSIVE TrimEnd(_)
TrimEnd(s) ==
    IF s # <<>> /\ s[Len(s)] \in WhiteSpace THEN TrimEnd(SubSeq(s, 1, Len(s) - 1)) ELSE s

\* s.trim()
Trim(s) == TrimEnd(TrimStart(s))

\* s.split(sep) for a non-empty sep: i scans, start is where the current piece began
RECURSIVE SplitFrom(_, _, _, _)
SplitFrom(s, sep, i, start) ==
    IF i + Len(sep) - 1 > Len(s) THEN <<SubSeq(s, start, Len(s))>>
    ELSE IF SubSeq(s, i, i + Len(sep) - 1) = sep
         THEN <<SubSeq(s, start, i - 1)>> \o SplitFrom(s, sep, i + Len(sep), i + Len(sep))
         ELSE SplitFrom(s, sep, i + 1, start)

StrSplit(s, sep) == SplitFrom(s, sep, 1, 1)

\* the decimal rendering of a chunk index in a template string
Digit(n) == <<CASE n = 0 -> "0" [] n = 1 -> "1" [] n = 2 -> "2" [] n = 3 -> "3"
                [] n = 4 -> "4" [] n = 5 -> "5" [] n = 6 -> "6" [] n = 7 -> "7"
                [] n = 8 -> "8" [] n = 9 -> "9">>

RECURSIVE Decimal(_)
Decimal(n) == IF n < 10 THEN Digit(n) ELSE Decimal(n \div 10) \o Digit(n % 10)

\* content.charCodeAt(i) for the characters of the model's texts
CharCode(c) ==
    CASE c = "a" -> 97 [] c = "b" -> 98 [] c = "c" -> 99 [] c = "d" -> 100
      [] c = "K" -> 75 [] c = "R" -> 82 [] c = "C" -> 67
      [] c = " " -> 32 [] c = "\n" -> 10 [] c = "\t" -> 9 [] c = "." -> 46
      [] OTHER -> 63

(***************************************************************************)
(* JavaScript Map: entries in insertion order                              *)
(***************************************************************************)
MapKeys(m) == [i \in 1..Len(m) |-> m[i].k]

MapKeySet(m) == {m[i].k : i \in 1..Len(m)}

MapHas(m, key) == \E i \in 1..Len(m) : m[i].k = key

\* m.get(key); only used where MapHas(m, key)
MapGet(m, key) == m[CHOOSE i \in 1..Len(m) : m[i].k = key].v

\* m.set(key, val): an existing key keeps its position, a new key goes last
MapSet(m, key, val) ==
    IF MapHas(m, key)
    THEN [i \in 1..Len(m) |-> IF m[i].k = key THEN [k |-> key, v |-> val] ELSE m[i]]
    ELSE Append(m, [k |-> key, v |-> val])

\* m.delete(key)
MapDelete(m, key) ==
    LET Keep(e) == e.k # key IN SelectSeq(m, Keep)

(***************************************************************************)
(* Text splitter (RecursiveCharacterTextSplitter)                          *)
(***************************************************************************)
Separators == << <<"\n", "\n">>, <<"\n">>, <<".", " ">>, <<" ">>, <<>> >>

\* the plugin's splitter configuration, scaled down
SplitterConfig == [chunkSize |-> ChunkSize, chunkOverlap |-> ChunkOverlap]

\* the check with > in place of >=
SplitterConstructs_AllowsEqual(cfg) == ~(cfg.chunkOverlap > cfg.chunkSize)

\* the constructor's check: it throws when chunkOverlap >= chunkSize
SplitterConstructs(cfg) == ~(cfg.chunkOverlap >= cfg.chunkSize)

\* no instance: the variable that would hold one was never assigned
NoSplitter == [exists |-> FALSE]

\* new RecursiveCharacterTextSplitter(cfg) when the constructor returns
NewSplitter(cfg) == [exists |-> TRUE, config |-> cfg]

\* the windows of splitBySeparator(text, ""), i is the 0-based start
RECURSIVE CharWindows(_, _, _)
CharWindows(text, i, cfg) ==
    IF i >= Len(text) THEN <<>>
    ELSE <<Slice(text, i, i + cfg.chunkSize)>>
             \o CharWindows(text, i + cfg.chunkSize - cfg.chunkOverlap, cfg)

SplitBySeparator(text, separator, cfg) ==
    IF separator = <<>> THEN CharWindows(text, 0, cfg)
    ELSE LET NonEmpty(x) == Len(x) > 0 IN SelectSeq(StrSplit(text, separator), NonEmpty)

\* no overlap text at all
GetOverlapText_None(text, cfg) == <<>>

\* getOverlapText(text): text.slice(-chunkOverlap), and slice(-0) is slice(0)
GetOverlapText(text, cfg) ==
    IF Len(text) <= cfg.chunkOverlap THEN text
    ELSE IF cfg.chunkOverlap = 0 THEN text
    ELSE SubSeq(text, Len(text) - cfg.chunkOverlap + 1, Len(text))

\* index of the separator the selection loop stops at, 0 when it stops at none
SeparatorIndex(text, separators) ==
    LET hits == {i \in 1..Len(separators) :
                    separators[i] = <<>> \/ Includes(text, separators[i])}
    IN IF hits = {} THEN 0 ELSE CHOOSE i \in hits : \A j \in hits : i <= j

ChosenSeparator(text, separators) ==
    LET i == SeparatorIndex(text, separators)
    IN IF i # 0 THEN separators[i]
       ELSE IF separators = <<>> THEN <<>> ELSE separators[Len(separators)]

NextSeparators(text, separators) ==
    LET i == SeparatorIndex(text, separators)
    IN IF i # 0 THEN SubSeq(separators, i + 1, Len(separators)) ELSE separators

\* a chunk as it is pushed: content is the string pushed; raw is currentChunk at the
\* push, separator the separator of the loop that pushes, origin the currentChunk the
\* overlap text at its start was taken from (empty when it starts without one)
Pushed(content, raw, separator, origin) ==
    [content |-> content, raw |-> raw, separator |-> separator, origin |-> origin]

\* if (currentChunk.trim().length > 0) chunks.push(currentChunk.trim())
PushTrimmed(chunks, currentChunk, separator, origin) ==
    IF Len(Trim(currentChunk)) > 0
    THEN Append(chunks, Pushed(Trim(currentChunk), currentChunk, separator, origin))
    ELSE chunks

RECURSIVE SplitTextRecursive(_, _, _)
RECURSIVE MergeSplits(_, _, _, _, _, _, _, _)
\* the loop over the splits, from split k on, with the chunks and currentChunk so far
MergeSplits(splits, k, chunks, currentChunk, origin, separator, nextSeparators, cfg) ==
    IF k > Len(splits) THEN PushTrimmed(chunks, currentChunk, separator, origin)
    ELSE
      LET split == splits[k]
          splitWithSep == IF separator # <<>> THEN split \o separator ELSE split
      IN IF Len(currentChunk) + Len(splitWithSep) > cfg.chunkSize
         THEN IF Len(splitWithSep) > cfg.chunkSize
              THEN MergeSplits(splits, k + 1,
                       PushTrimmed(chunks, currentChunk, separator, origin)
                           \o SplitTextRecursive(split, nextSeparators, cfg),
                       <<>>, <<>>, separator, nextSeparators, cfg)
              ELSE MergeSplits(splits, k + 1,
                       PushTrimmed(chunks, currentChunk, separator, origin),
                       GetOverlapText(currentChunk, cfg) \o splitWithSep, currentChunk,
                       separator, nextSeparators, cfg)
         ELSE MergeSplits(splits, k + 1, chunks, currentChunk \o splitWithSep, origin,
                  separator, nextSeparators, cfg)

\* splitTextRecursive(text, separators): the chunks pushed, in order
SplitTextRecursive(text, separators, cfg) ==
    IF Len(text) <= cfg.chunkSize
    THEN IF Len(Trim(text)) > 0 THEN <<Pushed(text, text, <<>>, <<>>)>> ELSE <<>>
    ELSE LET separator == ChosenSeparator(text, separators)
             nextSeparators == NextSeparators(text, separators)
         IN MergeSplits(SplitBySeparator(text, separator, cfg), 1, <<>>, <<>>, <<>>,
                        separator, nextSeparators, cfg)

\* splitText(text): the strings returned
SplitText(text, cfg) ==
    LET pushed == SplitTextRecursive(text, Separators, cfg)
    IN [i \in 1..Len(pushed) |-> pushed[i].content]

(***************************************************************************)
(* Redaction (PrivacyManager.redact).  The regular expressions are not     *)
(* modelled: the character "K" stands for a substring that one of the      *)
(* built-in patterns matches and "R" for its placeholder; a custom pattern *)
(* is a single character, replaced by "C".                                 *)
(***************************************************************************)
ReplaceAll(text, matched, replacement) ==
    [i \in 1..Len(text) |-> IF text[i] \in matched THEN replacement ELSE text[i]]

Redact(text, pm) ==
    IF ~pm.enabled THEN text
    ELSE ReplaceAll(ReplaceAll(text, {"K"}, "R"), pm.customPatterns, "C")

(***************************************************************************)
(* Content hash (EmbeddingManager.hashContent): djb2 on 32-bit integers.   *)
(* A 32-bit value is held as its two 16-bit halves [hi, lo]; the step      *)
(* hash = ((hash << 5) + hash + code) & 0xffffffff is computed on the      *)
(* halves with the carry.  The code returns the eight hexadecimal digits   *)
(* of the unsigned value, which name the same pair.                        *)
(***************************************************************************)
TwoTo16 == 65536

\* ((hash << 5) + hash) + charCode, then "hash & hash", as 32 bits
HashStep(hash, code) ==
    LET low == hash.lo * 33 + code
    IN [hi |-> (hash.hi * 33 + low \div TwoTo16) % TwoTo16, lo |-> low % TwoTo16]

RECURSIVE HashLoop(_, _, _)
HashLoop(content, i, hash) ==
    IF i > Len(content) THEN hash
    ELSE HashLoop(content, i + 1, HashStep(hash, CharCode(content[i])))

\* the initial value 5381
HashSeed == [hi |-> 0, lo |-> 5381]

HashContent(content) == HashLoop(content, 1, HashSeed)

(***************************************************************************)
(* Documents of the model                                                  *)
(***************************************************************************)
PathA == <<"a", ".", "m", "d">>

PathB == <<"d", "/", "b", ".", "m", "d">>

\* a file that is not a markdown file
PathN == <<"n">>

\* a file of a folder whose name starts with the name of the folder of PathB
PathC == <<"d", "d", "/", "c", ".", "m", "d">>

\* a file without extension at the root, named as the folder of PathB
PathD == <<"d">>

Paths == {PathA, PathB, PathN}

\* document texts: no chunk, one chunk, two chunks, another single chunk, one chunk
\* with a secret
TextEmpty == <<" ">>

TextOne == <<"a", "b">>

TextTwo == <<"a", "b", " ", "c", "d">>

TextAlt == <<"c", "d">>

TextSecret == <<"a", "K">>

Texts == {TextEmpty, TextOne, TextTwo, TextAlt, TextSecret}

\* the documents the coordinator is exercised with
MdPaths == {PathA, PathB}

PlainTexts == {TextOne, TextTwo}

\* TFile.extension === "md"
IsMarkdown(path) == EndsWith(path, <<".", "m", "d">>)

(***************************************************************************)
(* Chunk registry (ChunkManager)                                           *)
(***************************************************************************)
ChunkId(path, index) == path \o <<":", ":">> \o Decimal(index)

\* path.replace(/\.md$/, "")
StripMd(path) == IF IsMarkdown(path) THEN SubSeq(path, 1, Len(path) - 3) ELSE path

\* s.split("/").pop()
LastSegment(s) == LET parts == StrSplit(s, <<"/">>) IN parts[Len(parts)]

CreateFileLink(path) == <<"[", "[">> \o LastSegment(StripMd(path)) \o <<"]", "]">>

CreateChunksFromContent(content, path) ==
    LET textChunks == SplitText(content, SplitterConfig)
    IN [index \in 1..Len(textChunks) |->
          [id |-> ChunkId(path, index - 1),
           content |-> textChunks[index],
           filePath |-> path,
           fileLink |-> CreateFileLink(path),
           chunkIndex |-> index - 1]]

GetChunksForFile(cbf, path) == IF MapHas(cbf, path) THEN MapGet(cbf, path) ELSE <<>>

RECURSIVE FlattenChunks(_, _)
FlattenChunks(cbf, i) == IF i > Len(cbf) THEN <<>> ELSE cbf[i].v \o FlattenChunks(cbf, i + 1)

GetAllChunks(cbf) == FlattenChunks(cbf, 1)

\* processFile adding the new chunks to the chunks the path had
ProcessedRegistry_Appends(cbf, path, text, pm) ==
    IF ~IsMarkdown(path) THEN cbf
    ELSE MapSet(cbf, path,
                GetChunksForFile(cbf, path) \o CreateChunksFromContent(Redact(text, pm), path))

\* the registry after processFile(file) read the text
ProcessedRegistry(cbf, path, text, pm) ==
    IF ~IsMarkdown(path) THEN cbf
    ELSE MapSet(cbf, path, CreateChunksFromContent(Redact(text, pm), path))

\* a renamed chunk that keeps the link of the old path
RenamedChunk_KeepsLink(chunk, newPath) ==
    [chunk EXCEPT !.id = ChunkId(newPath, chunk.chunkIndex),
                  !.filePath = newPath]

RenamedChunk(chunk, newPath) ==
    [chunk EXCEPT !.id = ChunkId(newPath, chunk.chunkIndex),
                  !.filePath = newPath,
                  !.fileLink = CreateFileLink(newPath)]

RenamedRegistry(cbf, oldPath, newPath) ==
    IF ~MapHas(cbf, oldPath) THEN cbf
    ELSE LET chunks == MapGet(cbf, oldPath)
             updatedChunks == [i \in 1..Len(chunks) |-> RenamedChunk(chunks[i], newPath)]
         IN MapSet(MapDelete(cbf, oldPath), newPath, updatedChunks)

StoreVars == <<vectors, isDirty, excludedFolders, disk, apiKey, settings, ragEngine, em, sv>>

\* processFile(file): file.path = path and vault.read(file) yields text
ProcessFile(path, text) ==
    /\ chunksByFile' = ProcessedRegistry(chunksByFile, path, text, privacy)
    /\ ret' = [op |-> "processFile"]
    /\ UNCHANGED <<splitter, input, debounced, privacy, StoreVars>>

\* updateFile(file)
UpdateFile(path, text) ==
    /\ chunksByFile' = ProcessedRegistry(MapDelete(chunksByFile, path), path, text, privacy)
    /\ ret' = [op |-> "updateFile"]
    /\ UNCHANGED <<splitter, input, debounced, privacy, StoreVars>>

\* deleteFile(path)
DeleteFile(path) ==
    /\ chunksByFile' = MapDelete(chunksByFile, path)
    /\ ret' = [op |-> "deleteFile"]
    /\ UNCHANGED <<splitter, input, debounced, privacy, StoreVars>>

\* renameFile(oldPath, newPath); a rename event carries two different paths
RenameFile(oldPath, newPath) ==
    /\ oldPath # newPath
    /\ chunksByFile' = RenamedRegistry(chunksByFile, oldPath, newPath)
    /\ ret' = [op |-> "renameFile"]
    /\ UNCHANGED <<splitter, input, debounced, privacy, StoreVars>>

(***************************************************************************)
(* Suspended operations: em is the position of embedChunks, sv of save()   *)
(***************************************************************************)
NoData == [present |-> FALSE]

EmIdle == [pc |-> "idle"]

SvIdle == [pc |-> "idle"]

Idle == em.pc = "idle" /\ sv.pc = "idle"

(***************************************************************************)
(* Vector store (VectorStore)                                              *)
(***************************************************************************)
VECTOR_STORE_VERSION == 1

\* the value of a field a legacy record does not have
Undefined == <<"undefined">>

\* !x for a string field: undefined and "" are falsy
Falsy(x) == x = Undefined \/ x = <<>>

StoredVector(vector, contentHash, content, filePath, fileLink) ==
    [vector |-> vector, contentHash |-> contentHash, content |-> content,
     filePath |-> filePath, fileLink |-> fileLink]

\* hasValidVector with the comparison of the hashes inverted
HasValidVector_Inverted(vs, chunkId, contentHash) ==
    MapHas(vs, chunkId) /\ MapGet(vs, chunkId).contentHash # contentHash

HasValidVector(vs, chunkId, contentHash) ==
    MapHas(vs, chunkId) /\ MapGet(vs, chunkId).contentHash = contentHash

\* the vector map after saveVector(...); it also sets isDirty
SaveVector(vs, chunkId, vector, contentHash, content, filePath, fileLink) ==
    MapSet(vs, chunkId, StoredVector(vector, contentHash, content, filePath, fileLink))

IdPrefix(filePath) == filePath \o <<":", ":">>

GetChunkIdsForFile(vs, filePath) ==
    LET Match(chunkId) == StartsWith(chunkId, IdPrefix(filePath))
    IN SelectSeq(MapKeys(vs), Match)

\* the vector map after deleteVectorsForFile(filePath); its count is the number of ids
DeleteVectorsForFile(vs, filePath) ==
    LET Keep(e) == ~StartsWith(e.k, IdPrefix(filePath)) IN SelectSeq(vs, Keep)

\* the vector map after deleteVectors(chunkIds)
DeleteVectors(vs, chunkIds) ==
    LET Keep(e) == \A i \in 1..Len(chunkIds) : chunkIds[i] # e.k IN SelectSeq(vs, Keep)

\* deleteVectors leaving the flag as it is
DirtyAfterDelete_Keeps(dirty, chunkIds) == dirty

\* isDirty after deleteVectors(chunkIds)
DirtyAfterDelete(dirty, chunkIds) == IF Len(chunkIds) > 0 THEN TRUE ELSE dirty

(***************************************************************************)
(* Persisted plugin data: absent, or an object with the settings keys and  *)
(* possibly a vectorStore container                                        *)
(***************************************************************************)
NoSettings == "none"

NoVectorStore == [has |-> FALSE]

\* a vectorStore container; hasVectors is whether it has a "vectors" member
Container(version, hasVectors, vs) ==
    [has |-> TRUE, version |-> version, hasVectors |-> hasVectors, vectors |-> vs]

StoreData(vs) == Container(VECTOR_STORE_VERSION, TRUE, vs)

PluginData(settingsKeys, vectorStore) ==
    [present |-> TRUE, settings |-> settingsKeys, vectorStore |-> vectorStore]

\* { ...existingData, vectorStore: storeData } with existingData = loadData() ?? {}
MergedData(existingData, storeData) ==
    PluginData(IF existingData.present THEN existingData.settings ELSE NoSettings,
               storeData)

Pending == [op |-> "pending"]

\* what a call of save() did: the storage calls it made and whether the data was saved
Storage(reads, writes, saved) ==
    [storageReads |-> reads, storageWrites |-> writes, saved |-> saved]

\* "await this.vectorStore.save()" as the last statement of an operation that then
\* returns k: save() returns at once when the flag is clear, else it calls loadData()
CallSave(dirty, k, fromEmbed) ==
    IF ~dirty
    THEN /\ sv' = SvIdle
         /\ em' = EmIdle
         /\ ret' = k @@ Storage(0, 0, FALSE)
    ELSE /\ sv' = [pc |-> "read", k |-> k]
         /\ em' = IF fromEmbed THEN [pc |-> "save"] ELSE EmIdle
         /\ ret' = Pending

\* save() resumes after loadData(): it snapshots the vectors and calls saveData();
\* a failed read (ok = FALSE) is caught and save() returns.  An embedChunks that is
\* suspended in its batch loop while another operation saves stays where it is
SaveRead(ok) ==
    /\ sv.pc = "read"
    /\ IF ok
       THEN /\ sv' = [pc |-> "write", k |-> sv.k,
                      data |-> MergedData(disk, StoreData(vectors))]
            /\ UNCHANGED <<em, ret>>
       ELSE /\ sv' = SvIdle
            /\ em' = IF em.pc = "batch" THEN em ELSE EmIdle
            /\ ret' = sv.k @@ Storage(1, 0, FALSE)
    /\ UNCHANGED <<splitter, input, debounced, chunksByFile, privacy, vectors, isDirty, excludedFolders, disk, apiKey, settings, ragEngine>>

\* save() resumes after saveData(): on success (ok) the data is on disk and the flag
\* is cleared, a failed write is caught
SaveWrite(ok) ==
    /\ sv.pc = "write"
    /\ IF ok
       THEN /\ disk' = sv.data
            /\ isDirty' = FALSE
       ELSE UNCHANGED <<disk, isDirty>>
    /\ sv' = SvIdle
    /\ em' = IF em.pc = "batch" THEN em ELSE EmIdle
    /\ ret' = sv.k @@ Storage(1, 1, ok)
    /\ UNCHANGED <<splitter, input, debounced, chunksByFile, privacy, vectors, excludedFolders, apiKey, settings, ragEngine>>

\* vectorStore.save() called on its own
Save ==
    /\ CallSave(isDirty, [op |-> "save"], FALSE)
    /\ UNCHANGED <<splitter, input, debounced, chunksByFile, privacy, vectors, isDirty, excludedFolders, disk, apiKey, settings, ragEngine>>

\* load() taking the vectors of a container of any version
LoadedVectors_AnyVersion(vs, data, ok) ==
    IF ~ok THEN <<>>
    ELSE IF data.present /\ data.vectorStore.has /\ data.vectorStore.hasVectors
         THEN data.vectorStore.vectors
         ELSE vs

\* the vector map after load(); ok is whether loadData() succeeded
LoadedVectors(vs, data, ok) ==
    IF ~ok THEN <<>>
    ELSE IF data.present /\ data.vectorStore.has
            /\ data.vectorStore.version = VECTOR_STORE_VERSION
            /\ data.vectorStore.hasVectors
         THEN data.vectorStore.vectors
         ELSE vs

\* load(), called once by onload on the store it has just constructed
Load(ok) ==
    /\ ret.op = "init"
    /\ vectors' = LoadedVectors(vectors, disk, ok)
    /\ ret' = [op |-> "load", readOk |-> ok]
    /\ UNCHANGED <<splitter, input, debounced, chunksByFile, privacy, isDirty, excludedFolders, disk, apiKey, settings, ragEngine, em, sv>>

\* isExcluded(filePath)
IsExcluded(folders, filePath) ==
    \E i \in 1..Len(folders) :
        LET folder == folders[i]
            normalizedFolder == IF EndsWith(folder, <<"/">>) THEN folder
                                ELSE folder \o <<"/">>
        IN /\ folder # <<>>
           /\ \/ StartsWith(filePath, normalizedFolder)
              \/ StartsWith(filePath, folder \o <<"/">>)

\* isExcluded(filePath) applied to a path with the folders as configured
IsExcludedCall(filePath) ==
    /\ ret' = [op |-> "isExcluded", filePath |-> filePath,
               result |-> IsExcluded(excludedFolders, filePath)]
    /\ UNCHANGED <<splitter, input, debounced, chunksByFile, privacy, vectors, isDirty, excludedFolders, disk, apiKey, settings, ragEngine,
                   em, sv>>

\* purgeExcludedVectors() matching the folder as a plain prefix of the path
PurgeTargets_PlainPrefix(vs, folders) ==
    LET Hit(e) == /\ ~Falsy(e.v.filePath)
                  /\ \E i \in 1..Len(folders) :
                        folders[i] # <<>> /\ StartsWith(e.v.filePath, folders[i])
    IN IF Len(folders) = 0 THEN <<>> ELSE SelectSeq(vs, Hit)

\* the entries purgeExcludedVectors() deletes
PurgeTargets(vs, folders) ==
    LET Hit(e) == ~Falsy(e.v.filePath) /\ IsExcluded(folders, e.v.filePath)
    IN IF Len(folders) = 0 THEN <<>> ELSE SelectSeq(vs, Hit)

\* purgeExcludedVectors()
PurgeExcludedVectors ==
    LET toDelete == MapKeys(PurgeTargets(vectors, excludedFolders))
    IN /\ vectors' = DeleteVectors(vectors, toDelete)
       /\ isDirty' = IF Len(toDelete) > 0 THEN TRUE ELSE isDirty
       /\ ret' = [op |-> "purgeExcludedVectors", count |-> Len(toDelete)]
       /\ UNCHANGED <<splitter, input, debounced, chunksByFile, privacy, excludedFolders, disk, apiKey, settings, ragEngine, em, sv>>

\* setExcludedFolders(folders)
SetExcludedFolders(folders) ==
    /\ excludedFolders # folders
    /\ excludedFolders' = folders
    /\ ret' = [op |-> "setExcludedFolders"]
    /\ UNCHANGED <<splitter, input, debounced, chunksByFile, privacy, vectors, isDirty, disk, apiKey, settings, ragEngine, em, sv>>

\* clearAll()
ClearAll ==
    /\ vectors' = <<>>
    /\ isDirty' = TRUE
    /\ CallSave(TRUE, [op |-> "clearAll"], FALSE)
    /\ UNCHANGED <<splitter, input, debounced, chunksByFile, privacy, excludedFolders, disk, apiKey, settings, ragEngine>>

\* saveVector(...) called with the data of a chunk and its embedding
SaveVectorCall(chunk, vector) ==
    /\ vectors' = SaveVector(vectors, chunk.id, vector, HashContent(chunk.content),
                             chunk.content, chunk.filePath, chunk.fileLink)
    /\ isDirty' = TRUE
    /\ ret' = [op |-> "saveVector"]
    /\ UNCHANGED <<splitter, input, debounced, chunksByFile, privacy, excludedFolders, disk, apiKey, settings, ragEngine, em, sv>>

\* deleteVectors(chunkIds)
DeleteVectorsCall(chunkIds) ==
    /\ vectors' = DeleteVectors(vectors, chunkIds)
    /\ isDirty' = DirtyAfterDelete(isDirty, chunkIds)
    /\ ret' = [op |-> "deleteVectors"]
    /\ UNCHANGED <<splitter, input, debounced, chunksByFile, privacy, excludedFolders, disk, apiKey, settings, ragEngine, em, sv>>

\* deleteVectorsForFile(filePath)
DeleteVectorsForFileCall(filePath) ==
    LET deletedCount == Len(GetChunkIdsForFile(vectors, filePath))
    IN /\ vectors' = DeleteVectorsForFile(vectors, filePath)
       /\ isDirty' = IF deletedCount > 0 THEN TRUE ELSE isDirty
       /\ ret' = [op |-> "deleteVectorsForFile", count |-> deletedCount]
       /\ UNCHANGED <<splitter, input, debounced, chunksByFile, privacy, excludedFolders, disk, apiKey, settings, ragEngine, em, sv>>

(***************************************************************************)
(* Similarity search.  A score is the exact quotient num / den (den > 0);  *)
(* the embeddings of the model have integer norms, so the square roots are *)
(* exact.                                                                  *)
(***************************************************************************)
Number(num, den) == [num |-> num, den |-> den]

Zero == Number(0, 1)

\* x < y
Less(x, y) == x.num * y.den < y.num * x.den

\* Math.sqrt on a perfect square
Sqrt(n) == CHOOSE r \in 0..n : r * r = n

RECURSIVE SumProducts(_, _, _)
SumProducts(a, b, i) == IF i > Len(a) THEN 0 ELSE a[i] * b[i] + SumProducts(a, b, i + 1)

CosineSimilarity(a, b) ==
    IF Len(a) # Len(b) \/ Len(a) = 0 THEN Zero
    ELSE LET dotProduct == SumProducts(a, b, 1)
             denominator == Sqrt(SumProducts(a, a, 1)) * Sqrt(SumProducts(b, b, 1))
         IN IF denominator = 0 THEN Zero ELSE Number(dotProduct, denominator)

\* s.toLowerCase() for the characters of the model's tags
ToLowerCase(s) == [i \in 1..Len(s) |-> CASE s[i] = "P" -> "p" [] s[i] = "Q" -> "q"
                                          [] OTHER -> s[i]]

\* a frontmatter tag or a selected tag, normalized
NormalizedTag(t) ==
    IF StartsWith(t, <<"#">>) THEN ToLowerCase(t) ELSE <<"#">> \o ToLowerCase(t)

\* the metadata of the documents of the vault (the host's metadataCache): a file
\* known to the vault has inline tags, frontmatter "tags" and a frontmatter "tag"
NoCache == [exists |-> FALSE, tags |-> <<>>, fmTags |-> <<>>, fmTag |-> <<>>]

Metadata(filePath) ==
    CASE filePath = <<"a", ".", "m", "d">> ->
             [exists |-> TRUE, tags |-> << <<"#", "P">> >>, fmTags |-> <<>>, fmTag |-> <<>>]
      [] filePath = <<"d", "/", "b", ".", "m", "d">> ->
             [exists |-> TRUE, tags |-> <<>>, fmTags |-> << <<"p", "/", "q">> >>,
              fmTag |-> <<"Q">>]
      [] OTHER -> NoCache

\* the fileTags array matchesFilter collects
FileTags(cache) ==
    [i \in 1..Len(cache.tags) |-> ToLowerCase(cache.tags[i])]
        \o [i \in 1..Len(cache.fmTags) |-> NormalizedTag(cache.fmTags[i])]
        \o (IF cache.fmTag # <<>> THEN <<NormalizedTag(cache.fmTag)>> ELSE <<>>)

\* search options: absent, or the three lists (an absent list is an empty one)
NoOptions == [given |-> FALSE, files |-> <<>>, folders |-> <<>>, tags |-> <<>>]

SearchOptions(files, folders, tags) ==
    [given |-> TRUE, files |-> files, folders |-> folders, tags |-> tags]

\* the folder filter matching any path that starts with the folder name
FolderMatches_PlainPrefix(filePath, folder) == StartsWith(filePath, folder)

FolderMatches(filePath, folder) ==
    LET normalizedFolder == IF EndsWith(folder, <<"/">>) THEN folder ELSE folder \o <<"/">>
    IN StartsWith(filePath, normalizedFolder) \/ filePath = folder

TagMatches(fileTag, selectedTag) ==
    LET normalizedSelected == NormalizedTag(selectedTag)
    IN fileTag = normalizedSelected \/ StartsWith(fileTag, normalizedSelected \o <<"/">>)

\* matchesFilter requiring every non-empty criterion instead of any
MatchesFilter_All(filePath, options) ==
    LET hasFileFilter == Len(options.files) > 0
        hasFolderFilter == Len(options.folders) > 0
        hasTagFilter == Len(options.tags) > 0
        cache == Metadata(filePath)
        fileTags == FileTags(cache)
    IN IF ~options.given THEN TRUE
       ELSE IF ~hasFileFilter /\ ~hasFolderFilter /\ ~hasTagFilter THEN TRUE
       ELSE /\ hasFileFilter => \E i \in 1..Len(options.files) : options.files[i] = filePath
            /\ hasFolderFilter
                 => \E i \in 1..Len(options.folders) :
                        FolderMatches(filePath, options.folders[i])
            /\ hasTagFilter
                 => /\ cache.exists
                    /\ \E i \in 1..Len(options.tags), j \in 1..Len(fileTags) :
                           TagMatches(fileTags[j], options.tags[i])

MatchesFilter(filePath, options) ==
    LET hasFileFilter == Len(options.files) > 0
        hasFolderFilter == Len(options.folders) > 0
        hasTagFilter == Len(options.tags) > 0
        cache == Metadata(filePath)
        fileTags == FileTags(cache)
    IN IF ~options.given THEN TRUE
       ELSE IF ~hasFileFilter /\ ~hasFolderFilter /\ ~hasTagFilter THEN TRUE
       ELSE \/ hasFileFilter /\ \E i \in 1..Len(options.files) : options.files[i] = filePath
            \/ hasFolderFilter
                 /\ \E i \in 1..Len(options.folders) :
                        FolderMatches(filePath, options.folders[i])
            \/ hasTagFilter /\ cache.exists
                 /\ \E i \in 1..Len(options.tags), j \in 1..Len(fileTags) :
                        TagMatches(fileTags[j], options.tags[i])

\* search() scoring the records of excluded folders too
Candidates_KeepsExcluded(vs, folders, options) ==
    LET Kept(e) == /\ ~(Falsy(e.v.content) \/ Falsy(e.v.filePath))
                   /\ MatchesFilter(e.v.filePath, options)
    IN SelectSeq(vs, Kept)

\* matchesFilter(filePath, options) applied to a path
MatchesFilterCall(filePath, options) ==
    /\ ret' = [op |-> "matchesFilter", filePath |-> filePath, options |-> options,
               result |-> MatchesFilter(filePath, options)]
    /\ UNCHANGED <<splitter, input, debounced, chunksByFile, privacy, vectors, isDirty, excludedFolders, disk, apiKey, settings, ragEngine,
                   em, sv>>

\* the records search() scores, in iteration order
Candidates(vs, folders, options) ==
    LET Kept(e) == /\ ~(Falsy(e.v.content) \/ Falsy(e.v.filePath))
                   /\ ~IsExcluded(folders, e.v.filePath)
                   /\ MatchesFilter(e.v.filePath, options)
    IN SelectSeq(vs, Kept)

SearchResult(e, queryVector) ==
    [chunkId |-> e.k, content |-> e.v.content, filePath |-> e.v.filePath,
     fileLink |-> IF e.v.fileLink = Undefined THEN <<>> ELSE e.v.fileLink,
     score |-> CosineSimilarity(queryVector, e.v.vector)]

\* the results left in iteration order
InsertByScore_Unsorted(sorted, x) == Append(sorted, x)

\* x put into a sequence sorted by descending score, after the elements that do not
\* score less (the sort is stable)
InsertByScore(sorted, x) ==
    LET before == {i \in 1..Len(sorted) : Less(sorted[i].score, x.score)}
        at == IF before = {} THEN Len(sorted) + 1
              ELSE CHOOSE i \in before : \A j \in before : i <= j
    IN SubSeq(sorted, 1, at - 1) \o <<x>> \o SubSeq(sorted, at, Len(sorted))

\* results.sort((a, b) => b.score - a.score)
RECURSIVE SortByScore(_, _)
SortByScore(results, n) ==
    IF n = 0 THEN <<>> ELSE InsertByScore(SortByScore(results, n - 1), results[n])

Search(vs, folders, queryVector, limit, options) ==
    LET candidates == Candidates(vs, folders, options)
        results == [i \in 1..Len(candidates) |-> SearchResult(candidates[i], queryVector)]
    IN Slice(SortByScore(results, Len(results)), 0, limit)

\* search(queryVector, limit, options)
SearchCall(queryVector, limit, options) ==
    /\ ret' = [op |-> "search", queryVector |-> queryVector, limit |-> limit,
               options |-> options,
               results |-> Search(vectors, excludedFolders, queryVector, limit, options)]
    /\ UNCHANGED <<splitter, input, debounced, chunksByFile, privacy, vectors, isDirty, excludedFolders, disk, apiKey, settings, ragEngine,
                   em, sv>>

\* hasLegacyVectors()
HasLegacyVectors(vs) ==
    \E i \in 1..Len(vs) : Falsy(vs[i].v.content) \/ Falsy(vs[i].v.filePath)

\* hasLegacyVectors() called on the store as it stands
HasLegacyVectorsCall ==
    /\ ret' = [op |-> "hasLegacyVectors", result |-> HasLegacyVectors(vectors)]
    /\ UNCHANGED <<splitter, input, debounced, chunksByFile, privacy, vectors, isDirty, excludedFolders, disk, apiKey, settings, ragEngine,
                   em, sv>>

(***************************************************************************)
(* Embedding service (getEmbeddings): a black box.  It answers a batch     *)
(* with one embedding per text, with fewer embeddings than texts, or with  *)
(* an error; the call may also throw.  The embedding of a text is fixed.   *)
(***************************************************************************)
EmbeddingOf(text) ==
    IF text = <<>> THEN <<0, 0>>
    ELSE CASE text[1] = "a" -> IF Len(text) > 1 /\ text[2] = "b" THEN <<1, 0>> ELSE <<3, 4>>
           [] text[1] = "c" -> <<0, 1>>
           [] OTHER -> <<4, 3>>

Outcomes == {"ok", "short", "error", "throw"}

ServiceResponse(texts, outcome) ==
    [error |-> outcome = "error",
     thrown |-> outcome = "throw",
     embeddings |-> CASE outcome = "ok" -> [j \in 1..Len(texts) |-> EmbeddingOf(texts[j])]
                      [] outcome = "short" ->
                           [j \in 1..(Len(texts) - 1) |-> EmbeddingOf(texts[j])]
                      [] OTHER -> <<>>]

(***************************************************************************)
(* Embedding coordinator (EmbeddingManager)                                *)
(***************************************************************************)
EmbeddingResult(processed, skipped, failed) ==
    [processed |-> processed, skipped |-> skipped, failed |-> failed]

NoError == "none"

\* the chunks that have no valid vector, each with its hash, in input order
ChunksToEmbed(vs, chunks) ==
    LET Needs(chunk) == ~HasValidVector(vs, chunk.id, HashContent(chunk.content))
        todo == SelectSeq(chunks, Needs)
    IN [j \in 1..Len(todo) |-> [chunk |-> todo[j], hash |-> HashContent(todo[j].content)]]

\* embedChunks(chunks) up to its first suspension, called by the operation op with the
\* store as it stands (vs, dirty): what it does to the store and the coordinator
EmbedChunksStart(op, vs, dirty, chunks) ==
    LET chunksToEmbed == ChunksToEmbed(vs, chunks)
        skipped == Len(chunks) - Len(chunksToEmbed)
    IN /\ vectors' = vs
       /\ isDirty' = dirty
       /\ sv' = SvIdle
       /\ IF ~apiKey
          THEN /\ em' = EmIdle
               /\ ret' = op @@ EmbeddingResult(0, 0, 0)
                            @@ [error |-> "API key not set", calls |-> <<>>]
          ELSE IF Len(chunks) = 0 \/ Len(chunksToEmbed) = 0
          THEN /\ em' = EmIdle
               /\ ret' = op @@ EmbeddingResult(0, skipped, 0)
                            @@ [error |-> NoError, calls |-> <<>>]
          ELSE /\ em' = [pc |-> "batch", op |-> op, chunksToEmbed |-> chunksToEmbed,
                         i |-> 0, result |-> EmbeddingResult(0, skipped, 0),
                         calls |-> <<>>]
               /\ ret' = Pending

\* embedChunks(chunks) called by an operation that changes nothing else
StartEmbed(op, vs, dirty, chunks) ==
    /\ EmbedChunksStart(op, vs, dirty, chunks)
    /\ UNCHANGED <<splitter, input, debounced, chunksByFile, privacy, excludedFolders, disk, apiKey, settings, ragEngine>>

\* the loop "for j" storing the first embedding of the response under every id
RECURSIVE SaveBatch_FirstEmbedding(_, _, _, _)
SaveBatch_FirstEmbedding(vs, batch, embeddings, j) ==
    IF j > Len(batch) THEN vs
    ELSE SaveBatch_FirstEmbedding(
             IF j <= Len(embeddings)
             THEN SaveVector(vs, batch[j].chunk.id, embeddings[1], batch[j].hash,
                             batch[j].chunk.content, batch[j].chunk.filePath,
                             batch[j].chunk.fileLink)
             ELSE vs,
             batch, embeddings, j + 1)

\* the loop "for j" that saves the embeddings of one answered batch: the store after it
RECURSIVE SaveBatch(_, _, _, _)
SaveBatch(vs, batch, embeddings, j) ==
    IF j > Len(batch) THEN vs
    ELSE SaveBatch(IF j <= Len(embeddings)
                   THEN SaveVector(vs, batch[j].chunk.id, embeddings[j], batch[j].hash,
                                   batch[j].chunk.content, batch[j].chunk.filePath,
                                   batch[j].chunk.fileLink)
                   ELSE vs,
                   batch, embeddings, j + 1)

\* the counters when a failed call counts one failure, not one per chunk of the batch
BatchResult_OneFailure(result, batch, response) ==
    IF response.thrown \/ response.error
    THEN [result EXCEPT !.failed = @ + 1]
    ELSE [result EXCEPT !.processed = @ + Min(Len(batch), Len(response.embeddings)),
                        !.failed = @ + (Len(batch) - Min(Len(batch), Len(response.embeddings)))]

\* the counters when the chunks a short response left without an embedding are not
\* counted as failed
BatchResult_ShortUncounted(result, batch, response) ==
    IF response.thrown \/ response.error
    THEN [result EXCEPT !.failed = @ + Len(batch)]
    ELSE [result EXCEPT !.processed = @ + Min(Len(batch), Len(response.embeddings))]

\* the counters after one batch was answered by response
BatchResult(result, batch, response) ==
    IF response.thrown \/ response.error
    THEN [result EXCEPT !.failed = @ + Len(batch)]
    ELSE [result EXCEPT !.processed = @ + Min(Len(batch), Len(response.embeddings)),
                        !.failed = @ + (Len(batch) - Min(Len(batch), Len(response.embeddings)))]

\* one iteration of the batch loop: the call of the service and the handling of its
\* answer; after the last batch the store is saved and the result returned.  calls
\* logs the batches sent to the service, each with the outcome of its call
EmbedBatch ==
    /\ em.pc = "batch"
    /\ sv.pc = "idle"
    /\ \E outcome \in Outcomes :
         LET batch == Slice(em.chunksToEmbed, em.i, em.i + BatchSize)
             texts == [j \in 1..Len(batch) |-> batch[j].chunk.content]
             response == IF apiKey THEN ServiceResponse(texts, outcome)
                         ELSE ServiceResponse(texts, "error")
             stored == ~(response.thrown \/ response.error)
             vs == IF stored THEN SaveBatch(vectors, batch, response.embeddings, 1)
                   ELSE vectors
             dirty == IF stored /\ Len(response.embeddings) > 0 THEN TRUE ELSE isDirty
             result == BatchResult(em.result, batch, response)
             calls == IF apiKey
                      THEN Append(em.calls,
                                  [ids |-> [j \in 1..Len(batch) |-> batch[j].chunk.id],
                                   outcome |-> outcome])
                      ELSE em.calls
         IN /\ vectors' = vs
            /\ isDirty' = dirty
            /\ IF em.i + BatchSize < Len(em.chunksToEmbed)
               THEN /\ em' = [em EXCEPT !.i = @ + BatchSize, !.result = result,
                                        !.calls = calls]
                    /\ UNCHANGED <<sv, ret>>
               ELSE CallSave(dirty, em.op @@ result @@ [error |-> NoError, calls |-> calls],
                             TRUE)
    /\ UNCHANGED <<splitter, input, debounced, chunksByFile, privacy, excludedFolders, disk, apiKey, settings, ragEngine>>

\* embedChunks(chunks) called directly
EmbedChunks(chunks) ==
    StartEmbed([op |-> "embedChunks"], vectors, isDirty, chunks)

\* the stale ids of embedFile taken from all stored ids, not from those of filePath
StaleIdsForFile_AllPaths(vs, cbf, filePath) ==
    LET chunks == GetChunksForFile(cbf, filePath)
        Stale(id) == \A i \in 1..Len(chunks) : chunks[i].id # id
    IN SelectSeq(MapKeys(vs), Stale)

\* the ids deleteVectors is called with by embedFile
StaleIdsForFile(vs, cbf, filePath) ==
    LET chunks == GetChunksForFile(cbf, filePath)
        Stale(id) == \A i \in 1..Len(chunks) : chunks[i].id # id
    IN SelectSeq(GetChunkIdsForFile(vs, filePath), Stale)

\* embedFile(filePath)
EmbedFile(filePath) ==
    LET staleIds == StaleIdsForFile(vectors, chunksByFile, filePath)
    IN StartEmbed([op |-> "embedFile", path |-> filePath, stale |-> Len(staleIds)],
                  DeleteVectors(vectors, staleIds), DirtyAfterDelete(isDirty, staleIds),
                  GetChunksForFile(chunksByFile, filePath))

\* the stale ids of embedAllFiles decided by the path of the id, not by the id
StaleIds_ByPath(vs, cbf) ==
    LET Stale(id) == \A i \in 1..Len(cbf) : ~StartsWith(id, IdPrefix(cbf[i].k))
    IN SelectSeq(MapKeys(vs), Stale)

\* the ids deleteVectors is called with by embedAllFiles
StaleIds(vs, cbf) ==
    LET allChunks == GetAllChunks(cbf)
        Stale(id) == \A i \in 1..Len(allChunks) : allChunks[i].id # id
    IN SelectSeq(MapKeys(vs), Stale)

\* embedAllFiles()
EmbedAllFiles ==
    LET staleIds == StaleIds(vectors, chunksByFile)
    IN StartEmbed([op |-> "embedAllFiles", stale |-> Len(staleIds)],
                  DeleteVectors(vectors, staleIds), DirtyAfterDelete(isDirty, staleIds),
                  GetAllChunks(chunksByFile))

\* deleteFileVectors(filePath)
DeleteFileVectors(filePath) ==
    LET deletedCount == Len(GetChunkIdsForFile(vectors, filePath))
        dirty == IF deletedCount > 0 THEN TRUE ELSE isDirty
        k == [op |-> "deleteFileVectors"]
    IN /\ vectors' = DeleteVectorsForFile(vectors, filePath)
       /\ isDirty' = dirty
       /\ IF deletedCount > 0
          THEN CallSave(dirty, k, FALSE)
          ELSE /\ ret' = k @@ Storage(0, 0, FALSE)
               /\ UNCHANGED <<em, sv>>
       /\ UNCHANGED <<splitter, input, debounced, chunksByFile, privacy, excludedFolders, disk, apiKey, settings, ragEngine>>

\* the loop of renameFileVectors with the index cut from the old id one character
\* early, so that the new id has a ":" too many
RECURSIVE RekeyVectors_IndexWithColon(_, _, _, _, _)
RekeyVectors_IndexWithColon(vs, oldIds, j, oldPath, newPath) ==
    IF j > Len(oldIds) THEN vs
    ELSE LET oldId == oldIds[j]
             stored == MapGet(vs, oldId)
             index == Slice(oldId, Len(oldPath) + 1, Len(oldId))
             newId == newPath \o <<":", ":">> \o index
         IN RekeyVectors_IndexWithColon(
                IF MapHas(vs, oldId)
                THEN SaveVector(vs, newId, stored.vector, stored.contentHash,
                                stored.content, newPath, CreateFileLink(newPath))
                ELSE vs,
                oldIds, j + 1, oldPath, newPath)

\* the loop of renameFileVectors over oldIds: the store after re-inserting each
\* record under its new id
RECURSIVE RekeyVectors(_, _, _, _, _)
RekeyVectors(vs, oldIds, j, oldPath, newPath) ==
    IF j > Len(oldIds) THEN vs
    ELSE LET oldId == oldIds[j]
             stored == MapGet(vs, oldId)
             index == Slice(oldId, Len(oldPath) + 2, Len(oldId))
             newId == newPath \o <<":", ":">> \o index
         IN RekeyVectors(
                IF MapHas(vs, oldId)
                THEN SaveVector(vs, newId, stored.vector, stored.contentHash,
                                stored.content, newPath, CreateFileLink(newPath))
                ELSE vs,
                oldIds, j + 1, oldPath, newPath)

\* renameFileVectors(oldPath, newPath)
RenameFileVectors(oldPath, newPath) ==
    LET oldIds == GetChunkIdsForFile(vectors, oldPath)
        k == [op |-> "renameFileVectors"]
    IN /\ oldPath # newPath
       /\ IF Len(oldIds) = 0
          THEN /\ ret' = k @@ Storage(0, 0, FALSE)
               /\ UNCHANGED <<vectors, isDirty, em, sv>>
          ELSE /\ vectors' = DeleteVectors(
                                 RekeyVectors(vectors, oldIds, 1, oldPath, newPath), oldIds)
               /\ isDirty' = TRUE
               /\ CallSave(TRUE, k, FALSE)
       /\ UNCHANGED <<splitter, input, debounced, chunksByFile, privacy, excludedFolders, disk, apiKey, settings, ragEngine>>

\* the vault's "rename" event (main.ts): renameFile of the registry, then
\* renameFileVectors up to its save
RenameEvent(oldPath, newPath) ==
    LET oldIds == GetChunkIdsForFile(vectors, oldPath)
        k == [op |-> "renameEvent"]
    IN /\ oldPath # newPath
       /\ chunksByFile' = RenamedRegistry(chunksByFile, oldPath, newPath)
       /\ IF Len(oldIds) = 0
          THEN /\ ret' = k @@ Storage(0, 0, FALSE)
               /\ UNCHANGED <<vectors, isDirty, em, sv>>
          ELSE /\ vectors' = DeleteVectors(
                                 RekeyVectors(vectors, oldIds, 1, oldPath, newPath), oldIds)
               /\ isDirty' = TRUE
               /\ CallSave(TRUE, k, FALSE)
       /\ UNCHANGED <<splitter, input, debounced, privacy, excludedFolders, disk, apiKey,
                      settings, ragEngine>>

\* setApiKey(apiKey): the key is set or empty
SetApiKey(key) ==
    /\ apiKey # key
    /\ apiKey' = key
    /\ ret' = [op |-> "setApiKey"]
    /\ UNCHANGED <<splitter, input, debounced, chunksByFile, privacy, vectors, isDirty, excludedFolders, disk, settings,
                   ragEngine, em, sv>>

(***************************************************************************)
(* Hybrid search of the coordinator: the query is embedded, the store      *)
(* yields the pool by vector similarity, the pool is reranked by           *)
(* 0.7 * vector score + 0.3 * keyword score.  Scores stay exact quotients. *)
(***************************************************************************)
\* s.split(/\s+/): the pieces between the runs of whitespace; cur is the piece
\* being read
RECURSIVE SplitWhitespace(_, _, _)
SplitWhitespace(s, i, cur) ==
    IF i > Len(s) THEN <<cur>>
    ELSE IF s[i] \in WhiteSpace
         THEN IF i > 1 /\ s[i - 1] \in WhiteSpace THEN SplitWhitespace(s, i + 1, cur)
              ELSE <<cur>> \o SplitWhitespace(s, i + 1, <<>>)
         ELSE SplitWhitespace(s, i + 1, Append(cur, s[i]))

\* the query words of three characters or more, lower-cased
Keywords(query) ==
    LET IsKeyword(word) == Len(word) >= 3
    IN SelectSeq(SplitWhitespace(ToLowerCase(query), 1, <<>>), IsKeyword)

CalculateKeywordScore(query, text) ==
    LET keywords == Keywords(query)
        textLower == ToLowerCase(text)
        matchCount == Cardinality({j \in 1..Len(keywords) : Includes(textLower, keywords[j])})
    IN IF Len(keywords) = 0 THEN Zero ELSE Number(matchCount, Len(keywords))

\* the vector score alone
HybridScore_VectorOnly(vectorScore, keywordScore) == vectorScore

\* (candidate.score * 0.7) + (keywordScore * 0.3)
HybridScore(vectorScore, keywordScore) ==
    Number(7 * vectorScore.num * keywordScore.den + 3 * keywordScore.num * vectorScore.den,
           10 * vectorScore.den * keywordScore.den)

\* getEmbeddings(apiKey, texts): no call without a key or without texts; whatever the
\* client throws is caught and reported as an error
GetEmbeddings(key, texts, outcome) ==
    IF ~key THEN [embeddings |-> <<>>, error |-> TRUE, thrown |-> FALSE, serviceCalls |-> 0]
    ELSE IF Len(texts) = 0
         THEN [embeddings |-> <<>>, error |-> FALSE, thrown |-> FALSE, serviceCalls |-> 0]
         ELSE LET response == ServiceResponse(texts, outcome)
              IN [embeddings |-> response.embeddings,
                  error |-> response.error \/ response.thrown,
                  thrown |-> FALSE, serviceCalls |-> 1]

\* getQueryEmbedding(queryText); null is the record with isNull set
GetQueryEmbedding(key, queryText, outcome) ==
    IF ~key
    THEN [isNull |-> TRUE, vector |-> <<>>, thrown |-> FALSE, serviceCalls |-> 0]
    ELSE LET response == GetEmbeddings(key, <<queryText>>, outcome)
         IN IF response.thrown
            THEN [isNull |-> TRUE, vector |-> <<>>, thrown |-> TRUE,
                  serviceCalls |-> response.serviceCalls]
            ELSE IF response.error \/ Len(response.embeddings) = 0
                 THEN [isNull |-> TRUE, vector |-> <<>>, thrown |-> FALSE,
                       serviceCalls |-> response.serviceCalls]
                 ELSE [isNull |-> FALSE, vector |-> response.embeddings[1],
                       thrown |-> FALSE, serviceCalls |-> response.serviceCalls]

\* one call of the store's search made by the coordinator
StoreSearch(queryVector, limit, options) ==
    [queryVector |-> queryVector, limit |-> limit, options |-> options]

\* the candidates with their hybrid scores, in pool order
ScoredCandidates(queryText, candidates) ==
    [i \in 1..Len(candidates) |->
        [candidates[i] EXCEPT
            !.score = HybridScore(@, CalculateKeywordScore(queryText, candidates[i].content))]]

\* steps 2 and 3 of search: hybrid scores, sort, slice
Reranked(queryText, candidates, limit) ==
    LET scoredCandidates == ScoredCandidates(queryText, candidates)
    IN Slice(SortByScore(scoredCandidates, Len(scoredCandidates)), 0, limit)

\* the store searched although there is no query vector
HybridSearch_SearchesAnyway(vs, folders, key, queryText, limit, poolSize, options, outcome) ==
    LET query == GetQueryEmbedding(key, queryText, outcome)
    IN [results |-> <<>>, pool |-> <<>>,
        storeSearches |-> <<StoreSearch(query.vector, poolSize, options)>>,
        serviceCalls |-> query.serviceCalls, thrown |-> query.thrown]

\* search(queryText, limit, poolSize, options): what it returns, the pool it fetched,
\* the calls it made to the store and to the embedding service
HybridSearch(vs, folders, key, queryText, limit, poolSize, options, outcome) ==
    LET query == GetQueryEmbedding(key, queryText, outcome)
    IN IF query.isNull
       THEN [results |-> <<>>, pool |-> <<>>, storeSearches |-> <<>>,
             serviceCalls |-> query.serviceCalls, thrown |-> query.thrown]
       ELSE LET candidates == Search(vs, folders, query.vector, poolSize, options)
            IN [results |-> IF Len(candidates) = 0 THEN <<>>
                            ELSE Reranked(queryText, candidates, limit),
                pool |-> candidates,
                storeSearches |-> <<StoreSearch(query.vector, poolSize, options)>>,
                serviceCalls |-> query.serviceCalls, thrown |-> FALSE]

\* search(queryText, limit, poolSize, options) called on the coordinator
HybridSearchCall(queryText, limit, poolSize, options, outcome) ==
    /\ ret' = [op |-> "hybridSearch", queryText |-> queryText, limit |-> limit,
               poolSize |-> poolSize, options |-> options, outcome |-> outcome,
               search |-> HybridSearch(vectors, excludedFolders, apiKey, queryText, limit,
                                       poolSize, options, outcome)]
    /\ UNCHANGED <<splitter, input, debounced, chunksByFile, privacy, vectors, isDirty, excludedFolders, disk, apiKey,
                   settings, ragEngine, em, sv>>

\* findSimilar(queryText, topK): the results whose chunk the registry holds
FindSimilar(cbf, vs, folders, key, queryText, topK, outcome) ==
    LET search == HybridSearch(vs, folders, key, queryText, topK, topK * 2, NoOptions, outcome)
        Known(result) ==
            \E i \in 1..Len(GetChunksForFile(cbf, result.filePath)) :
                GetChunksForFile(cbf, result.filePath)[i].id = result.chunkId
        ChunkOf(result) ==
            LET chunks == GetChunksForFile(cbf, result.filePath)
            IN chunks[CHOOSE i \in 1..Len(chunks) :
                         /\ chunks[i].id = result.chunkId
                         /\ \A j \in 1..(i - 1) : chunks[j].id # result.chunkId]
        known == SelectSeq(search.results, Known)
    IN [results |-> [i \in 1..Len(known) |->
                        [chunk |-> ChunkOf(known[i]), score |-> known[i].score]],
        search |-> search]

\* findSimilar(queryText, topK) called on the coordinator
FindSimilarCall(queryText, topK, outcome) ==
    /\ LET found == FindSimilar(chunksByFile, vectors, excludedFolders, apiKey, queryText,
                                topK, outcome)
       IN ret' = [op |-> "findSimilar", queryText |-> queryText, limit |-> topK,
                  poolSize |-> topK * 2, outcome |-> outcome,
                  results |-> found.results, search |-> found.search]
    /\ UNCHANGED <<splitter, input, debounced, chunksByFile, privacy, vectors, isDirty, excludedFolders, disk, apiKey,
                   settings, ragEngine, em, sv>>

(***************************************************************************)
(* Plugin settings and the settings tab.  The settings object is           *)
(* DEFAULT_SETTINGS overlaid with every key of the persisted data, so it   *)
(* also carries the vectorStore key the data had at startup.               *)
(***************************************************************************)
DEFAULT_SETTINGS ==
    [openRouterApiKey |-> FALSE, openRouterModel |-> "google/gemini-2.5-flash",
     enableRedaction |-> TRUE, customRedactionPatterns |-> {},
     retrievalPoolSize |-> 50, maxContextChunks |-> 15, vectorStore |-> NoVectorStore]

\* loadSettings(): Object.assign({}, DEFAULT_SETTINGS, await this.loadData())
LoadedSettings(data) ==
    [DEFAULT_SETTINGS EXCEPT
        !.vectorStore = IF data.present THEN data.vectorStore ELSE NoVectorStore]

\* the RAG engine as constructed: no key, the default model, no settings getter
NewRAGEngine ==
    [apiKey |-> FALSE, model |-> "google/gemini-2.5-flash", getSettings |-> FALSE]

\* saveSettings() with the settings object s: the object is written as the plugin
\* data, then the key, the model and the redaction settings are handed on
SaveSettings(s) ==
    /\ disk' = PluginData("s", s.vectorStore)
    /\ apiKey' = s.openRouterApiKey
    /\ ragEngine' = [ragEngine EXCEPT !.apiKey = s.openRouterApiKey,
                                      !.model = s.openRouterModel]
    /\ privacy' = [enabled |-> s.enableRedaction,
                   customPatterns |-> s.customRedactionPatterns]

\* the values the sliders of the settings tab take: setLimits(min, max, step)
SliderValues(min, max, step) == {v \in min..max : (v - min) % step = 0}

RetrievalPoolSizes == SliderValues(10, 100, 5)

MaxContextChunkValues == SliderValues(1, 30, 1)

\* the "Retrieval pool size" slider moved to value
SetRetrievalPoolSize(value) ==
    /\ settings.retrievalPoolSize # value
    /\ settings' = [settings EXCEPT !.retrievalPoolSize = value]
    /\ SaveSettings(settings')
    /\ ret' = [op |-> "setRetrievalPoolSize", value |-> value]
    /\ UNCHANGED <<splitter, input, debounced, chunksByFile, vectors, isDirty, excludedFolders, em, sv>>

\* the "Max context chunks" slider moved to value
SetMaxContextChunks(value) ==
    /\ settings.maxContextChunks # value
    /\ settings' = [settings EXCEPT !.maxContextChunks = value]
    /\ SaveSettings(settings')
    /\ ret' = [op |-> "setMaxContextChunks", value |-> value]
    /\ UNCHANGED <<splitter, input, debounced, chunksByFile, vectors, isDirty, excludedFolders, em, sv>>

\* the "OpenRouter API Key" field edited: the key is set or empty
SetOpenRouterApiKey(value) ==
    /\ settings.openRouterApiKey # value
    /\ settings' = [settings EXCEPT !.openRouterApiKey = value]
    /\ SaveSettings(settings')
    /\ ret' = [op |-> "setOpenRouterApiKey", value |-> value]
    /\ UNCHANGED <<splitter, input, debounced, chunksByFile, vectors, isDirty, excludedFolders, em, sv>>

\* the "Enable redaction" toggle switched to value
SetEnableRedaction(value) ==
    /\ settings.enableRedaction # value
    /\ settings' = [settings EXCEPT !.enableRedaction = value]
    /\ SaveSettings(settings')
    /\ ret' = [op |-> "setEnableRedaction", value |-> value]
    /\ UNCHANGED <<splitter, input, debounced, chunksByFile, vectors, isDirty, excludedFolders, em, sv>>

\* the "Custom redaction patterns" text area edited: value is the set of patterns
SetCustomRedactionPatterns(value) ==
    /\ settings.customRedactionPatterns # value
    /\ settings' = [settings EXCEPT !.customRedactionPatterns = value]
    /\ SaveSettings(settings')
    /\ ret' = [op |-> "setCustomRedactionPatterns", value |-> value]
    /\ UNCHANGED <<splitter, input, debounced, chunksByFile, vectors, isDirty, excludedFolders, em, sv>>

(***************************************************************************)
(* RAG engine (RAGEngine) and the chat service (sendChatMessage)           *)
(***************************************************************************)
\* setSettingsGetter(getter) with the getter of the plugin settings
SetSettingsGetter ==
    /\ ~ragEngine.getSettings
    /\ ragEngine' = [ragEngine EXCEPT !.getSettings = TRUE]
    /\ ret' = [op |-> "setSettingsGetter"]
    /\ UNCHANGED <<splitter, input, debounced, chunksByFile, privacy, vectors, isDirty, excludedFolders, disk, apiKey,
                   settings, em, sv>>

\* this.getSettings?.().retrievalPoolSize ?? 50
PoolSizeOf(rag, s) == IF rag.getSettings THEN s.retrievalPoolSize ELSE 50

\* this.getSettings?.().maxContextChunks ?? 15
MaxChunksOf(rag, s) == IF rag.getSettings THEN s.maxContextChunks ELSE 15

ErrorPrefix == <<"E", "r", "r", "o", "r", ":", " ">>

\* "Error: API key not set." and the hint that follows it
ApiKeyNotSet ==
    ErrorPrefix \o <<"A", "P", "I", " ", "k", "e", "y", " ", "n", "o", "t", " ", "s", "e", "t", ".">>

ChatOutcomes == {"ok", "empty", "throw"}

\* the answer of the model, and the message of a failed call
ChatContent == <<"o", "k">>

ChatError(outcome) ==
    IF outcome = "empty" THEN <<"N", "o", " ", "r", "e", "s", "p", "o", "n", "s", "e">>
    ELSE <<"f", "a", "i", "l", "e", "d">>

\* sendChatMessage(apiKey, messages, model)
SendChatMessage(key, messages, model, outcome) ==
    IF ~key THEN [content |-> <<>>, error |-> <<"n", "o", " ", "k", "e", "y">>, chatCalls |-> <<>>]
    ELSE [content |-> IF outcome = "ok" THEN ChatContent ELSE <<>>,
          error |-> IF outcome = "ok" THEN <<>> ELSE ChatError(outcome),
          chatCalls |-> << [messages |-> messages, model |-> model] >>]

\* buildSystemPrompt(searchResults, searchOptions): the parts the prompt is made of
SystemPrompt(searchResults, searchOptions) ==
    [role |-> "system",
     scope |-> searchOptions,
     context |-> [i \in 1..Len(searchResults) |->
                     [source |-> searchResults[i].fileLink,
                      relevance |-> searchResults[i].score,
                      content |-> searchResults[i].content]]]

\* one call of the coordinator's search made by the engine
EngineSearch(queryText, limit, poolSize, options) ==
    [queryText |-> queryText, limit |-> limit, poolSize |-> poolSize, options |-> options]

\* the chat service left out when retrieval found nothing
Answer_NoChatWithoutContext(rag, s, vs, folders, key, userQuery, conversationHistory, searchOptions, outcome, chatOutcome) ==
    LET poolSize == PoolSizeOf(rag, s)
        maxChunks == MaxChunksOf(rag, s)
        search == HybridSearch(vs, folders, key, userQuery, maxChunks, poolSize,
                               searchOptions, outcome)
        messages == <<SystemPrompt(search.results, searchOptions)>>
                        \o conversationHistory
                        \o << [role |-> "user", content |-> userQuery] >>
        response == IF search.results = <<>>
                    THEN [content |-> ChatContent, error |-> <<>>, chatCalls |-> <<>>]
                    ELSE SendChatMessage(rag.apiKey, messages, rag.model, chatOutcome)
    IN [result |-> IF response.error # <<>> THEN ErrorPrefix \o response.error
                   ELSE response.content,
        searches |-> <<EngineSearch(userQuery, maxChunks, poolSize, searchOptions)>>,
        retrieved |-> search.results,
        storeSearches |-> search.storeSearches,
        serviceCalls |-> search.serviceCalls,
        chatCalls |-> response.chatCalls,
        thrown |-> search.thrown]

\* steps 1 to 4 of ask: retrieval, prompt, messages, chat call
Answer(rag, s, vs, folders, key, userQuery, conversationHistory, searchOptions, outcome, chatOutcome) ==
    LET poolSize == PoolSizeOf(rag, s)
        maxChunks == MaxChunksOf(rag, s)
        search == HybridSearch(vs, folders, key, userQuery, maxChunks, poolSize,
                               searchOptions, outcome)
        messages == <<SystemPrompt(search.results, searchOptions)>>
                        \o conversationHistory
                        \o << [role |-> "user", content |-> userQuery] >>
        response == SendChatMessage(rag.apiKey, messages, rag.model, chatOutcome)
    IN [result |-> IF response.error # <<>> THEN ErrorPrefix \o response.error
                   ELSE response.content,
        searches |-> <<EngineSearch(userQuery, maxChunks, poolSize, searchOptions)>>,
        retrieved |-> search.results,
        storeSearches |-> search.storeSearches,
        serviceCalls |-> search.serviceCalls,
        chatCalls |-> response.chatCalls,
        thrown |-> search.thrown]

\* the key not looked at
AskResult_NoKeyCheck(rag, s, vs, folders, key, userQuery, conversationHistory, searchOptions, outcome, chatOutcome) ==
    Answer(rag, s, vs, folders, key, userQuery, conversationHistory, searchOptions, outcome,
           chatOutcome)

\* ask(userQuery, conversationHistory, searchOptions): the string it returns, its calls
\* of the coordinator's search, of the embedding service and of the chat service
AskResult(rag, s, vs, folders, key, userQuery, conversationHistory, searchOptions, outcome, chatOutcome) ==
    IF ~rag.apiKey
    THEN [result |-> ApiKeyNotSet, searches |-> <<>>, retrieved |-> <<>>,
          storeSearches |-> <<>>, serviceCalls |-> 0, chatCalls |-> <<>>, thrown |-> FALSE]
    ELSE Answer(rag, s, vs, folders, key, userQuery, conversationHistory, searchOptions,
                outcome, chatOutcome)

\* ask(userQuery, conversationHistory, searchOptions) called on the engine
Ask(userQuery, conversationHistory, searchOptions, outcome, chatOutcome) ==
    /\ ret' = [op |-> "ask", userQuery |-> userQuery,
               conversationHistory |-> conversationHistory,
               searchOptions |-> searchOptions, outcome |-> outcome,
               chatOutcome |-> chatOutcome,
               answer |-> AskResult(ragEngine, settings, vectors, excludedFolders, apiKey,
                                    userQuery, conversationHistory, searchOptions, outcome,
                                    chatOutcome)]
    /\ UNCHANGED <<splitter, input, debounced, chunksByFile, privacy, vectors, isDirty, excludedFolders, disk, apiKey,
                   settings, ragEngine, em, sv>>

(***************************************************************************)
(* The text splitter as an object of its own: input is the text handed to  *)
(* splitText                                                               *)
(***************************************************************************)
\* new RecursiveCharacterTextSplitter(cfg): the constructor throws or returns
Construct(cfg) ==
    /\ splitter' = IF SplitterConstructs(cfg) THEN NewSplitter(cfg) ELSE splitter
    /\ ret' = [op |-> "newSplitter", config |-> cfg, thrown |-> ~SplitterConstructs(cfg)]
    /\ UNCHANGED <<input, debounced, chunksByFile, privacy, StoreVars>>

\* splitter.splitText(input) on the instance there is
SplitTextCall ==
    /\ splitter.exists
    /\ ret' = [op |-> "splitText", text |-> input, config |-> splitter.config,
               chunks |-> SplitText(input, splitter.config),
               pushed |-> SplitTextRecursive(input, Separators, splitter.config)]
    /\ UNCHANGED <<splitter, input, debounced, chunksByFile, privacy, StoreVars>>

(***************************************************************************)
(* Debounced re-indexing (main.ts): debouncedUpdateFile is one debounced   *)
(* function, debounce(callback, 2000, true): one timer, restarted by every *)
(* call, and the arguments of the latest call                              *)
(***************************************************************************)
NoTimer == [pending |-> FALSE]

\* the vault's "modify" event on a file
ModifyEvent(path) ==
    /\ IsMarkdown(path)
    /\ debounced' = [pending |-> TRUE, file |-> path]
    /\ UNCHANGED <<splitter, input, chunksByFile, privacy, StoreVars, ret>>

\* the timer runs out: the callback runs for the file kept, whose text is now text
DebouncedUpdateFile(text) ==
    /\ debounced.pending
    /\ LET path == debounced.file
           cbf == ProcessedRegistry(MapDelete(chunksByFile, path), path, text, privacy)
           staleIds == StaleIdsForFile(vectors, cbf, path)
       IN /\ chunksByFile' = cbf
          /\ debounced' = NoTimer
          /\ IF settings.openRouterApiKey
             THEN EmbedChunksStart([op |-> "embedFile", path |-> path,
                                    stale |-> Len(staleIds)],
                                   DeleteVectors(vectors, staleIds),
                                   DirtyAfterDelete(isDirty, staleIds),
                                   GetChunksForFile(cbf, path))
             ELSE /\ ret' = [op |-> "updateFile", path |-> path]
                  /\ UNCHANGED <<vectors, isDirty, em, sv>>
    /\ UNCHANGED <<splitter, input, privacy, excludedFolders, disk, apiKey, settings, ragEngine>>


(***************************************************************************)
(* The "Rebuild Index" command (main.ts): rebuildChunkIndex(), then        *)
(* rebuildEmbeddings().  vault gives the text of each markdown file.       *)
(***************************************************************************)
\* processAllFiles(): clearAll(), then processFile for files[i], files[i + 1], ...
RECURSIVE ProcessedAll(_, _, _, _, _)
ProcessedAll(cbf, files, i, vault, pm) ==
    IF i > Len(files) THEN cbf
    ELSE ProcessedAll(ProcessedRegistry(cbf, files[i], vault[files[i]], pm),
                      files, i + 1, vault, pm)

\* the command's callback up to the first suspension of embedChunks; setApiKey hands
\* over the key of the settings, which saveSettings had handed over before
RebuildIndex(files, vault) ==
    LET cbf == ProcessedAll(<<>>, files, 1, vault, privacy)
        staleIds == StaleIds(vectors, cbf)
    IN /\ chunksByFile' = cbf
       /\ IF ~settings.openRouterApiKey
          THEN /\ ret' = [op |-> "rebuildIndex", embedded |-> FALSE]
               /\ UNCHANGED <<vectors, isDirty, em, sv>>
          ELSE /\ apiKey = settings.openRouterApiKey
               /\ EmbedChunksStart([op |-> "rebuildIndex", embedded |-> TRUE,
                                    stale |-> Len(staleIds)],
                                   DeleteVectors(vectors, staleIds),
                                   DirtyAfterDelete(isDirty, staleIds),
                                   GetAllChunks(cbf))
       /\ UNCHANGED <<splitter, input, debounced, privacy, excludedFolders, disk, apiKey,
                      settings, ragEngine>>

(***************************************************************************)
(* The vault's "delete" event (main.ts): it is handled when it arrives,    *)
(* also while an embedChunks is suspended in its batch loop                *)
(***************************************************************************)
DeleteEvent(path) ==
    LET deletedCount == Len(GetChunkIdsForFile(vectors, path))
        k == [op |-> "deleteEvent", path |-> path]
    IN /\ sv.pc = "idle"
       /\ em.pc \in {"idle", "batch"}
       /\ chunksByFile' = MapDelete(chunksByFile, path)
       /\ vectors' = DeleteVectorsForFile(vectors, path)
       /\ IF deletedCount > 0
          THEN /\ isDirty' = TRUE
               /\ sv' = [pc |-> "read", k |-> k]
               /\ ret' = Pending
               /\ UNCHANGED em
          ELSE /\ ret' = k @@ Storage(0, 0, FALSE)
               /\ UNCHANGED <<isDirty, em, sv>>
       /\ UNCHANGED <<splitter, input, debounced, privacy, excludedFolders, disk, apiKey,
                      settings, ragEngine>>

(***************************************************************************)
(* Initial state: the objects as constructed by onload                     *)
(***************************************************************************)
Init ==
    /\ chunksByFile = <<>>
    /\ privacy = [enabled |-> TRUE, customPatterns |-> {}]
    /\ splitter = NewSplitter(SplitterConfig)
    /\ input = <<>>
    /\ debounced = NoTimer
    /\ vectors = <<>>
    /\ isDirty = FALSE
    /\ excludedFolders = <<>>
    /\ disk = NoData
    /\ apiKey = FALSE
    /\ settings = DEFAULT_SETTINGS
    /\ ragEngine = NewRAGEngine
    /\ em = EmIdle
    /\ sv = SvIdle
    /\ ret = [op |-> "init"]

(***************************************************************************)
(* The chunk registry on its own                                           *)
(***************************************************************************)
NextRegistry ==
    \/ \E path \in Paths, text \in Texts : ProcessFile(path, text)
    \/ \E path \in Paths, text \in Texts : UpdateFile(path, text)
    \/ \E path \in Paths : DeleteFile(path)
    \/ \E oldPath \in Paths, newPath \in Paths : RenameFile(oldPath, newPath)

SpecRegistry == Init /\ [][NextRegistry]_vars

(***************************************************************************)
(* The registry, the store and the coordinator, one operation at a time:   *)
(* an operation starts when no other is suspended (callers serialize the   *)
(* operations, section 5 of the design)                                    *)
(***************************************************************************)
\* the chunk lists embedChunks is called with directly: one chunk of the registry
ChunkLists ==
    {<<GetAllChunks(chunksByFile)[i]>> : i \in 1..Len(GetAllChunks(chunksByFile))}

Next ==
    \/ \E path \in MdPaths, text \in PlainTexts : Idle /\ UpdateFile(path, text)
    \/ \E path \in MdPaths : Idle /\ DeleteFile(path)
    \/ \E oldPath \in MdPaths, newPath \in MdPaths : Idle /\ RenameFile(oldPath, newPath)
    \/ \E chunks \in ChunkLists : Idle /\ EmbedChunks(chunks)
    \/ \E path \in MdPaths : Idle /\ EmbedFile(path)
    \/ Idle /\ EmbedAllFiles
    \/ \E path \in MdPaths : Idle /\ DeleteFileVectors(path)
    \/ \E oldPath \in MdPaths, newPath \in MdPaths :
          Idle /\ RenameFileVectors(oldPath, newPath)
    \/ \E key \in BOOLEAN : Idle /\ SetApiKey(key)
    \/ Idle /\ Save
    \/ EmbedBatch
    \/ SaveRead(TRUE)
    \/ SaveWrite(TRUE)

Spec == Init /\ [][Next]_vars

(***************************************************************************)
(* The vector store on its own, with a storage collaborator that may fail  *)
(***************************************************************************)
\* a record written by an earlier version of the plugin: no content metadata
LegacyVector == StoredVector(<<1, 0>>, HashContent(TextOne), Undefined, Undefined, Undefined)

\* the chunks the store is exercised with
StoreChunks ==
    {CreateChunksFromContent(TextOne, PathA)[1], CreateChunksFromContent(TextAlt, PathA)[1],
     CreateChunksFromContent(TextOne, PathB)[1]}

StoredChunk(chunk) ==
    [k |-> chunk.id,
     v |-> StoredVector(EmbeddingOf(chunk.content), HashContent(chunk.content),
                        chunk.content, chunk.filePath, chunk.fileLink)]

\* a persisted vector map: a record with its metadata and a legacy record
PersistedVectors ==
    <<StoredChunk(CreateChunksFromContent(TextOne, PathB)[1]),
      [k |-> ChunkId(PathA, 1), v |-> LegacyVector]>>

\* what loadData() may find at startup
InitialDisks ==
    {NoData,
     PluginData("s", NoVectorStore),
     PluginData("s", Container(2, TRUE, PersistedVectors)),
     PluginData("s", Container(0, TRUE, PersistedVectors)),
     PluginData("s", Container(VECTOR_STORE_VERSION, FALSE, <<>>)),
     PluginData("s", Container(VECTOR_STORE_VERSION, TRUE, <<>>)),
     PluginData("s", Container(VECTOR_STORE_VERSION, TRUE, PersistedVectors))}

FolderLists == {<<>>, << <<"d">> >>}

StoreIds == {ChunkId(PathA, 0), ChunkId(PathA, 1), ChunkId(PathB, 0)}

InitStore ==
    /\ chunksByFile = <<>>
    /\ privacy = [enabled |-> TRUE, customPatterns |-> {}]
    /\ splitter = NewSplitter(SplitterConfig)
    /\ input = <<>>
    /\ debounced = NoTimer
    /\ vectors = <<>>
    /\ isDirty = FALSE
    /\ excludedFolders = <<>>
    /\ disk \in InitialDisks
    /\ apiKey = FALSE
    /\ settings = LoadedSettings(disk)
    /\ ragEngine = NewRAGEngine
    /\ em = EmIdle
    /\ sv = SvIdle
    /\ ret = [op |-> "init"]

NextStore ==
    \/ \E ok \in BOOLEAN : Idle /\ Load(ok)
    \/ \E chunk \in StoreChunks :
          Idle /\ SaveVectorCall(chunk, EmbeddingOf(chunk.content))
    \/ \E id \in StoreIds : Idle /\ DeleteVectorsCall(<<id>>)
    \/ Idle /\ DeleteVectorsCall(<<>>)
    \/ \E path \in MdPaths : Idle /\ DeleteVectorsForFileCall(path)
    \/ \E folders \in FolderLists : Idle /\ SetExcludedFolders(folders)
    \/ Idle /\ PurgeExcludedVectors
    \/ Idle /\ ClearAll
    \/ Idle /\ Save
    \/ \E ok \in BOOLEAN : SaveRead(ok)
    \/ \E ok \in BOOLEAN : SaveWrite(ok)

SpecStore == InitStore /\ [][NextStore]_vars

(***************************************************************************)
(* Search on its own: the store holds any arrangement of a few records     *)
(***************************************************************************)
SearchRecord(chunkId, vector, content, filePath) ==
    [k |-> chunkId,
     v |-> StoredVector(vector, HashContent(content), content, filePath,
                        CreateFileLink(filePath))]

SearchRecords ==
    {SearchRecord(ChunkId(PathA, 0), <<1, 0>>, TextOne, PathA),
     SearchRecord(ChunkId(PathA, 1), <<3, 4>>, TextAlt, PathA),
     SearchRecord(ChunkId(PathB, 0), <<4, 3>>, TextOne, PathB),
     SearchRecord(ChunkId(PathC, 0), <<1, 0>>, TextAlt, PathC),
     SearchRecord(ChunkId(PathC, 1), <<1, 0, 0>>, TextOne, PathC),
     [k |-> ChunkId(PathB, 1), v |-> LegacyVector]}

MaxStored == 3

\* the vector maps of at most MaxStored of these records, in any order
SearchStores ==
    {vs \in UNION {[1..n -> SearchRecords] : n \in 0..MaxStored} :
        \A i, j \in 1..Len(vs) : i # j => vs[i].k # vs[j].k}

QueryVectors == {<<1, 0>>, <<0, 1>>, <<-3, 4>>, <<0, 0>>}

OptionsSet ==
    {NoOptions,
     SearchOptions(<<PathA>>, <<>>, <<>>),
     SearchOptions(<<>>, << <<"d">> >>, <<>>),
     SearchOptions(<<>>, <<>>, << <<"p">> >>)}

InitSearch ==
    /\ chunksByFile = <<>>
    /\ privacy = [enabled |-> TRUE, customPatterns |-> {}]
    /\ splitter = NewSplitter(SplitterConfig)
    /\ input = <<>>
    /\ debounced = NoTimer
    /\ vectors \in SearchStores
    /\ isDirty = FALSE
    /\ excludedFolders \in {<<>>, << <<"d", "d">> >>}
    /\ disk = NoData
    /\ apiKey = FALSE
    /\ settings = DEFAULT_SETTINGS
    /\ ragEngine = NewRAGEngine
    /\ em = EmIdle
    /\ sv = SvIdle
    /\ ret = [op |-> "init"]

NextSearch ==
    \/ \E queryVector \in QueryVectors, limit \in 0..MaxLimit, options \in OptionsSet :
          SearchCall(queryVector, limit, options)
    \/ HasLegacyVectorsCall

SpecSearch == InitSearch /\ [][NextSearch]_vars

(***************************************************************************)
(* Exclusion on its own: the store holds a few records, among them one of  *)
(* a file named as a folder, and the excluded folders are configured       *)
(***************************************************************************)
ExclusionRecords ==
    SearchRecords \cup {SearchRecord(ChunkId(PathD, 0), <<0, 1>>, TextOne, PathD)}

ExclusionStores ==
    {vs \in UNION {[1..n -> ExclusionRecords] : n \in 0..MaxStored} :
        \A i, j \in 1..Len(vs) : i # j => vs[i].k # vs[j].k}

\* the lists setExcludedFolders is called with: a folder, with and without a
\* trailing slash, and an empty entry
ExclusionFolderLists ==
    {<<>>, << <<"d">> >>, << <<"d", "/">> >>, << <<>>, <<"d", "d">> >>}

ExclusionPaths == {PathA, PathB, PathC, PathD}

InitExclusion ==
    /\ chunksByFile = <<>>
    /\ privacy = [enabled |-> TRUE, customPatterns |-> {}]
    /\ splitter = NewSplitter(SplitterConfig)
    /\ input = <<>>
    /\ debounced = NoTimer
    /\ vectors \in ExclusionStores
    /\ isDirty = FALSE
    /\ excludedFolders = <<>>
    /\ disk = NoData
    /\ apiKey = FALSE
    /\ settings = DEFAULT_SETTINGS
    /\ ragEngine = NewRAGEngine
    /\ em = EmIdle
    /\ sv = SvIdle
    /\ ret = [op |-> "init"]

NextExclusion ==
    \/ \E folders \in ExclusionFolderLists : SetExcludedFolders(folders)
    \/ \E filePath \in ExclusionPaths : IsExcludedCall(filePath)
    \/ PurgeExcludedVectors

SpecExclusion == InitExclusion /\ [][NextExclusion]_vars

(***************************************************************************)
(* The search filter on its own                                            *)
(***************************************************************************)
FilterFiles == {<<>>, <<PathA>>, <<PathC, PathD>>}

FilterFolders == {<<>>, << <<"d">> >>, << <<"d", "/">> >>, << <<"x">>, <<"d", "d">> >>}

FilterTags == {<<>>, << <<"p">> >>, << <<"#", "Q">> >>, << <<"z">>, <<"P">> >>}

FilterOptions ==
    {NoOptions}
        \cup {SearchOptions(files, folders, tags) :
                 files \in FilterFiles, folders \in FilterFolders, tags \in FilterTags}

FilterPaths == {PathA, PathB, PathC, PathD, PathN}

NextFilter ==
    \E filePath \in FilterPaths, options \in FilterOptions :
        MatchesFilterCall(filePath, options)

SpecFilter == Init /\ [][NextFilter]_vars

(***************************************************************************)
(* Hybrid search on its own: the store holds a few records whose contents  *)
(* have keywords, the key is set or not, the service answers or fails      *)
(***************************************************************************)
TextXyz == <<"x", "y", "z">>

TextKeyword == <<"P", "q", "p", " ", "x">>

TextBoth == <<"p", "q", "p", " ", "q", "q", "q">>

HybridRecords ==
    {SearchRecord(ChunkId(PathA, 0), <<1, 0>>, TextXyz, PathA),
     SearchRecord(ChunkId(PathA, 1), <<1, 0>>, TextKeyword, PathA),
     SearchRecord(ChunkId(PathB, 0), <<3, 4>>, TextBoth, PathB)}

\* the vector maps of some of these records, in any order
HybridStores ==
    {vs \in UNION {[1..n -> HybridRecords] : n \in 0..Cardinality(HybridRecords)} :
        \A i, j \in 1..Len(vs) : i # j => vs[i].k # vs[j].k}

\* queries: one keyword after a short word, two keywords, no keyword
QueryOne == <<"a", "b", " ", "P", "q", "p">>

QueryTwo == <<"p", "q", "p", " ", " ", "q", "q", "q">>

QueryShort == <<"a", "b">>

QueryTexts == {QueryOne, QueryTwo, QueryShort}

HybridOptions == {NoOptions, SearchOptions(<<PathA>>, <<>>, <<>>)}

InitHybrid ==
    /\ chunksByFile = <<>>
    /\ privacy = [enabled |-> TRUE, customPatterns |-> {}]
    /\ splitter = NewSplitter(SplitterConfig)
    /\ input = <<>>
    /\ debounced = NoTimer
    /\ vectors \in HybridStores
    /\ isDirty = FALSE
    /\ excludedFolders = <<>>
    /\ disk = NoData
    /\ apiKey = FALSE
    /\ settings = DEFAULT_SETTINGS
    /\ ragEngine = NewRAGEngine
    /\ em = EmIdle
    /\ sv = SvIdle
    /\ ret = [op |-> "init"]

NextHybrid ==
    \/ \E key \in BOOLEAN : SetApiKey(key)
    \/ \E queryText \in QueryTexts, limit \in 0..MaxLimit, poolSize \in 0..MaxLimit,
          options \in HybridOptions, outcome \in Outcomes :
          HybridSearchCall(queryText, limit, poolSize, options, outcome)

SpecHybrid == InitHybrid /\ [][NextHybrid]_vars

(***************************************************************************)
(* The RAG engine with the settings tab: the sliders move, the key is      *)
(* entered, the engine is given the settings getter, questions are asked   *)
(***************************************************************************)
\* slider positions the model moves to: both ends and the default
PoolSizeChoices == {v \in RetrievalPoolSizes : v \in {10, 50, 100}}

MaxChunkChoices == {v \in MaxContextChunkValues : v \in {1, 15, 30}}

AskStores ==
    {<<>>,
     <<SearchRecord(ChunkId(PathA, 0), <<1, 0>>, TextXyz, PathA),
       SearchRecord(ChunkId(PathA, 1), <<1, 0>>, TextKeyword, PathA),
       SearchRecord(ChunkId(PathB, 0), <<3, 4>>, TextBoth, PathB)>>}

\* the registry is empty or holds the two chunks of a.md
AskRegistries ==
    {<<>>, ProcessedRegistry(<<>>, PathA, TextTwo, [enabled |-> TRUE, customPatterns |-> {}])}

Histories ==
    {<<>>,
     << [role |-> "user", content |-> QueryShort],
        [role |-> "assistant", content |-> ChatContent] >>}

AskQueries == {QueryOne, QueryShort}

InitAsk ==
    /\ chunksByFile \in AskRegistries
    /\ privacy = [enabled |-> TRUE, customPatterns |-> {}]
    /\ splitter = NewSplitter(SplitterConfig)
    /\ input = <<>>
    /\ debounced = NoTimer
    /\ vectors \in AskStores
    /\ isDirty = FALSE
    /\ excludedFolders = <<>>
    /\ disk = NoData
    /\ apiKey = FALSE
    /\ settings = DEFAULT_SETTINGS
    /\ ragEngine = NewRAGEngine
    /\ em = EmIdle
    /\ sv = SvIdle
    /\ ret = [op |-> "init"]

NextAsk ==
    \/ \E value \in PoolSizeChoices : SetRetrievalPoolSize(value)
    \/ \E value \in MaxChunkChoices : SetMaxContextChunks(value)
    \/ \E value \in BOOLEAN : SetOpenRouterApiKey(value)
    \/ \E key \in BOOLEAN : SetApiKey(key)
    \/ SetSettingsGetter
    \/ \E userQuery \in AskQueries, conversationHistory \in Histories,
          searchOptions \in HybridOptions, outcome \in Outcomes,
          chatOutcome \in ChatOutcomes :
          Ask(userQuery, conversationHistory, searchOptions, outcome, chatOutcome)
    \/ \E queryText \in AskQueries, topK \in 0..MaxLimit, outcome \in Outcomes :
          FindSimilarCall(queryText, topK, outcome)

SpecAsk == InitAsk /\ [][NextAsk]_vars

(***************************************************************************)
(* Redaction with the settings tab: the redaction settings change while    *)
(* documents with and without a secret are chunked, renamed and embedded   *)
(***************************************************************************)
CustomPatternSets == {{}, {"b"}}

SecretTexts == {TextOne, TextSecret}

NextPrivacy ==
    \/ \E value \in BOOLEAN : Idle /\ SetEnableRedaction(value)
    \/ \E value \in CustomPatternSets : Idle /\ SetCustomRedactionPatterns(value)
    \/ \E value \in BOOLEAN : Idle /\ SetOpenRouterApiKey(value)
    \/ \E text \in SecretTexts : Idle /\ UpdateFile(PathA, text)
    \/ Idle /\ RenameFile(PathA, PathB)
    \/ Idle /\ RenameFileVectors(PathA, PathB)
    \/ Idle /\ EmbedAllFiles
    \/ EmbedBatch
    \/ SaveRead(TRUE)
    \/ SaveWrite(TRUE)

SpecPrivacy == Init /\ [][NextPrivacy]_vars

(***************************************************************************)
(* The splitter on texts over a small alphabet with every separator, and   *)
(* on configurations the constructor accepts and rejects                   *)
(***************************************************************************)
MaxTextLen == 5

MaxChunkSize == 3

SplitAlphabet == {"a", "b", " ", ".", "\n"}

SplitTexts == UNION {[1..n -> SplitAlphabet] : n \in 0..MaxTextLen}

SplitterConfigs ==
    [chunkSize : 1..MaxChunkSize, chunkOverlap : 0..MaxChunkSize]

InitSplitter ==
    /\ chunksByFile = <<>>
    /\ privacy = [enabled |-> TRUE, customPatterns |-> {}]
    /\ splitter = NoSplitter
    /\ input \in SplitTexts
    /\ debounced = NoTimer
    /\ vectors = <<>>
    /\ isDirty = FALSE
    /\ excludedFolders = <<>>
    /\ disk = NoData
    /\ apiKey = FALSE
    /\ settings = DEFAULT_SETTINGS
    /\ ragEngine = NewRAGEngine
    /\ em = EmIdle
    /\ sv = SvIdle
    /\ ret = [op |-> "init"]

\* one instance is followed: a construction is tried until one returns
NextSplitter ==
    \/ \E cfg \in SplitterConfigs : ~splitter.exists /\ Construct(cfg)
    \/ SplitTextCall

SpecSplitter == InitSplitter /\ [][NextSplitter]_vars

(***************************************************************************)
(* Modify events on two documents with the debounce timer, the key set or  *)
(* not                                                                     *)
(***************************************************************************)
NextDebounce ==
    \/ \E path \in MdPaths : Idle /\ ModifyEvent(path)
    \/ \E text \in PlainTexts : Idle /\ DebouncedUpdateFile(text)
    \/ \E value \in BOOLEAN : Idle /\ SetOpenRouterApiKey(value)
    \/ EmbedBatch
    \/ SaveRead(TRUE)
    \/ SaveWrite(TRUE)

SpecDebounce == Init /\ [][NextDebounce]_vars

(***************************************************************************)
(* Startup on a container that holds a legacy record, then Rebuild Index   *)
(* on a vault whose documents kept or changed their text                   *)
(***************************************************************************)
\* the persisted map: a legacy record of the first chunk of PathA, whose text was
\* TextOne, and a record with metadata of the first chunk of PathB
LegacyPersisted ==
    <<[k |-> ChunkId(PathA, 0), v |-> LegacyVector],
      StoredChunk(CreateChunksFromContent(TextOne, PathB)[1])>>

VaultFiles == <<PathA, PathB>>

Vaults == [MdPaths -> {TextOne, TextAlt}]

InitLegacy ==
    /\ chunksByFile = <<>>
    /\ privacy = [enabled |-> TRUE, customPatterns |-> {}]
    /\ splitter = NewSplitter(SplitterConfig)
    /\ input = <<>>
    /\ debounced = NoTimer
    /\ vectors = <<>>
    /\ isDirty = FALSE
    /\ excludedFolders = <<>>
    /\ disk = PluginData("s", Container(VECTOR_STORE_VERSION, TRUE, LegacyPersisted))
    /\ apiKey = FALSE
    /\ settings = LoadedSettings(disk)
    /\ ragEngine = NewRAGEngine
    /\ em = EmIdle
    /\ sv = SvIdle
    /\ ret = [op |-> "init"]

NextLegacy ==
    \/ Idle /\ Load(TRUE)
    \/ \E value \in BOOLEAN : Idle /\ ret.op # "init" /\ SetOpenRouterApiKey(value)
    \/ \E vault \in Vaults : Idle /\ ret.op # "init" /\ RebuildIndex(VaultFiles, vault)
    \/ Idle /\ ret.op # "init" /\ HasLegacyVectorsCall
    \/ EmbedBatch
    \/ SaveRead(TRUE)
    \/ SaveWrite(TRUE)

SpecLegacy == InitLegacy /\ [][NextLegacy]_vars

(***************************************************************************)
(* The vector store with its methods called while save() is suspended on   *)
(* the storage: one save() at a time, upserts and deletes at any time      *)
(***************************************************************************)
NextInterleaved ==
    \/ \E chunk \in StoreChunks : SaveVectorCall(chunk, EmbeddingOf(chunk.content))
    \/ \E id \in StoreIds : DeleteVectorsCall(<<id>>)
    \/ Idle /\ Save
    \/ SaveRead(TRUE)
    \/ \E ok \in BOOLEAN : SaveWrite(ok)

SpecInterleaved == Init /\ [][NextInterleaved]_vars

(***************************************************************************)
(* Documents edited, embedded and deleted, the delete events arriving at   *)
(* any suspension of an embed                                              *)
(***************************************************************************)
NextDeleteEvent ==
    \/ \E path \in MdPaths, text \in PlainTexts : Idle /\ UpdateFile(path, text)
    \/ Idle /\ SetApiKey(TRUE)
    \/ \E path \in MdPaths : Idle /\ EmbedFile(path)
    \/ \E path \in MdPaths : DeleteEvent(path)
    \/ EmbedBatch
    \/ SaveRead(TRUE)
    \/ SaveWrite(TRUE)

SpecDeleteEvent == Init /\ [][NextDeleteEvent]_vars

(***************************************************************************)
(* Documents edited, embedded and renamed, and the chunks of a document    *)
(* embedded again                                                          *)
(***************************************************************************)
NextRename ==
    \/ \E path \in MdPaths, text \in PlainTexts : Idle /\ UpdateFile(path, text)
    \/ Idle /\ SetApiKey(TRUE)
    \/ Idle /\ EmbedAllFiles
    \/ \E oldPath \in MdPaths, newPath \in MdPaths : Idle /\ RenameEvent(oldPath, newPath)
    \/ \E path \in MdPaths : Idle /\ EmbedChunks(GetChunksForFile(chunksByFile, path))
    \/ EmbedBatch
    \/ SaveRead(TRUE)
    \/ SaveWrite(TRUE)

SpecRename == Init /\ [][NextRename]_vars

(***************************************************************************)
(* Properties                                                              *)
(***************************************************************************)
\* the ids of the stored vectors whose id starts with path + "::"
IdsUnder(vs, path) ==
    {vs[i].k : i \in {j \in 1..Len(vs) : StartsWith(vs[j].k, path \o <<":", ":">>)}}

\* the ids of the chunks the registry holds for path
RegistryIds(cbf, path) ==
    UNION {{cbf[i].v[j].id : j \in 1..Len(cbf[i].v)} :
              i \in {e \in 1..Len(cbf) : cbf[e].k = path}}

\* the ids of all chunks of the registry
AllRegistryIds(cbf) == UNION {{cbf[i].v[j].id : j \in 1..Len(cbf[i].v)} : i \in 1..Len(cbf)}

\* the store holds a record under the chunk's id whose contentHash is the hash of
\* the chunk's content
HoldsValid(vs, chunk) ==
    \E i \in 1..Len(vs) :
        vs[i].k = chunk.id /\ vs[i].v.contentHash = HashContent(chunk.content)

\* C1 Re-embed skip: embedChunks([c]) with the key set, for a chunk c whose stored
\* record carries the hash of c.content, returns skipped = 1, processed = 0,
\* failed = 0 at once, calls the embedding service not at all and leaves the stored
\* vectors as they were.
C1_ReembedSkip ==
    [][\A chunks \in ChunkLists :
          (Idle /\ apiKey /\ HoldsValid(vectors, chunks[1]) /\ EmbedChunks(chunks))
          => /\ ret'.op = "embedChunks"
             /\ ret'.skipped = 1 /\ ret'.processed = 0 /\ ret'.failed = 0
             /\ ret'.error = NoError
             /\ ret'.calls = <<>>
             /\ em'.pc = "idle"
             /\ vectors' = vectors]_vars

C1_Witness ==
    /\ ret.op = "embedChunks"
    /\ apiKey
    /\ ret.skipped = 1 /\ ret.processed = 0 /\ ret.calls = <<>>
    /\ vectors # <<>>

\* an embedFile step on path leaves every stored vector of another path in place
OtherPathsKept(path) ==
    \A i \in 1..Len(vectors) :
        ~StartsWith(vectors[i].k, path \o <<":", ":">>)
        => \E j \in 1..Len(vectors') : vectors'[j] = vectors[i]

C2_Returned ==
    ret.op = "embedFile" => IdsUnder(vectors, ret.path) \subseteq RegistryIds(chunksByFile, ret.path)

C2_Step ==
    /\ \A path \in MdPaths : (Idle /\ EmbedFile(path)) => OtherPathsKept(path)
    /\ (em.pc = "batch" /\ em.op.op = "embedFile") => OtherPathsKept(em.op.path)

\* C2 Stale-chunk cleanup: when embedFile(path) has returned, every stored vector id
\* that starts with path + "::" is the id of a chunk the registry holds for path, and
\* no step of embedFile(path) removes or changes a vector stored for another path.
C2_StaleCleanup == []C2_Returned /\ [][C2_Step]_vars

C2_Witness ==
    /\ ret.op = "embedFile"
    /\ ret.stale > 0
    /\ IdsUnder(vectors, ret.path) # {}
    /\ \E path \in MdPaths : path # ret.path /\ IdsUnder(vectors, path) # {}

\* C3 When embedAllFiles() has returned, every stored vector id is the id of a chunk
\* of the registry.
C3_EmbedAllNoOrphans ==
    ret.op = "embedAllFiles"
    => \A i \in 1..Len(vectors) : vectors[i].k \in AllRegistryIds(chunksByFile)

C3_Witness ==
    /\ ret.op = "embedAllFiles"
    /\ ret.stale > 0
    /\ ret.processed > 0
    /\ Len(vectors) > 1

\* the counters and the log of calls of the embedding operation in flight, after a step
RunningAfter ==
    IF em'.pc = "batch" THEN em'.result @@ [calls |-> em'.calls]
    ELSE IF sv'.pc = "read" THEN sv'.k
    ELSE ret'

RECURSIVE IdsSent(_, _)
IdsSent(calls, i) == IF i > Len(calls) THEN 0 ELSE Len(calls[i].ids) + IdsSent(calls, i + 1)

\* one iteration of the batch loop, seen from outside
C4_Step ==
    em.pc = "batch" =>
        LET after == RunningAfter
            last == after.calls[Len(after.calls)]
            size == Len(last.ids)
            rest == Len(em.chunksToEmbed) - IdsSent(after.calls, 1)
        IN /\ Len(after.calls) = Len(em.calls) + 1
           /\ size = Min(BatchSize, Len(em.chunksToEmbed) - IdsSent(em.calls, 1))
           /\ last.outcome \in {"error", "throw"}
              => /\ after.failed = em.result.failed + size
                 /\ after.processed = em.result.processed
                 /\ vectors' = vectors
           /\ rest > 0 => em'.pc = "batch"
           /\ rest = 0 => em'.pc # "batch"

\* C4 Batch-level failure isolation: a batch whose call of the embedding service
\* answers with an error or throws adds the size of that batch to failed, stores
\* nothing, and the loop goes on: the next batch is still sent, until every chunk to
\* embed was sent in a batch.
C4_BatchFailureIsolation == [][C4_Step]_vars

C4_Witness ==
    /\ ret.op = "embedAllFiles"
    /\ Len(ret.calls) = 2
    /\ ret.calls[1].outcome = "error"
    /\ ret.calls[2].outcome = "ok"
    /\ ret.failed = Len(ret.calls[1].ids)
    /\ ret.processed = Len(ret.calls[2].ids)
    /\ \A j \in 1..Len(ret.calls[2].ids) :
          \E i \in 1..Len(vectors) : vectors[i].k = ret.calls[2].ids[j]

\* the stored record under newPath that continues the record e stored under oldPath
Continues(vs, e, oldPath, newPath) ==
    \E j \in 1..Len(vs) :
        /\ vs[j].k = newPath \o <<":", ":">> \o Slice(e.k, Len(oldPath) + 2, Len(e.k))
        /\ vs[j].v.vector = e.v.vector
        /\ vs[j].v.contentHash = e.v.contentHash
        /\ vs[j].v.content = e.v.content
        /\ vs[j].v.filePath = newPath

C5_Step ==
    \A oldPath, newPath \in MdPaths :
        (Idle /\ IdsUnder(vectors, oldPath) # {} /\ RenameFileVectors(oldPath, newPath))
        => /\ Cardinality(IdsUnder(vectors', newPath)) = Cardinality(IdsUnder(vectors, oldPath))
           /\ IdsUnder(vectors', oldPath) = {}
           /\ \A i \in 1..Len(vectors) :
                 StartsWith(vectors[i].k, oldPath \o <<":", ":">>)
                 => Continues(vectors', vectors[i], oldPath, newPath)

\* C5 Rename preserves vectors: after renameFileVectors(old, new) for a path old that
\* has stored vectors, the number of ids stored under new equals the number that was
\* stored under old, none is stored under old, and each re-keyed record keeps vector,
\* contentHash and content, with filePath = new.
C5_RenamePreservesVectors == [][C5_Step]_vars

\* the registry holds a chunk set for path, and that chunk set
HasChunkSet(cbf, path) == \E e \in 1..Len(cbf) : cbf[e].k = path

ChunkSet(cbf, path) ==
    IF HasChunkSet(cbf, path)
    THEN cbf[CHOOSE e \in 1..Len(cbf) : cbf[e].k = path].v
    ELSE <<>>

C6_Registry ==
    /\ \A e, f \in 1..Len(chunksByFile) : chunksByFile[e].k = chunksByFile[f].k => e = f
    /\ \A e \in 1..Len(chunksByFile) :
          LET p == chunksByFile[e].k
              chunks == chunksByFile[e].v
          IN \A i \in 1..Len(chunks) :
                /\ chunks[i].id = p \o <<":", ":">> \o Decimal(i - 1)
                /\ chunks[i].filePath = p
                /\ chunks[i].chunkIndex = i - 1

C6_Process ==
    \A path \in MdPaths, text \in Texts :
        (ProcessFile(path, text) \/ UpdateFile(path, text))
        => LET fresh == SplitText(Redact(text, privacy), SplitterConfig)
               now == ChunkSet(chunksByFile', path)
           IN /\ HasChunkSet(chunksByFile', path)
              /\ Len(now) = Len(fresh)
              /\ \A i \in 1..Len(now) : now[i].content = fresh[i]

\* C6 Registry invariant: whatever processFile, updateFile, deleteFile and renameFile
\* calls were made, each path has at most one chunk set, the chunk at position i
\* (from 0) of the chunk set of path p has id "p::i", filePath p and chunkIndex i, and
\* after processFile of a markdown file the chunk set of its path consists of the
\* chunks of the text just read and of nothing else.
C6_RegistryInvariant == []C6_Registry /\ [][C6_Process]_vars

C6_Witness ==
    /\ ret.op = "processFile"
    /\ Len(ChunkSet(chunksByFile, PathN)) = 2
    /\ \E path \in MdPaths : Len(ChunkSet(chunksByFile, path)) = 1

C7_Step ==
    \A oldPath, newPath \in Paths :
        RenameFile(oldPath, newPath)
        => IF ~HasChunkSet(chunksByFile, oldPath)
           THEN chunksByFile' = chunksByFile
           ELSE LET was == ChunkSet(chunksByFile, oldPath)
                    now == ChunkSet(chunksByFile', newPath)
                IN /\ HasChunkSet(chunksByFile', newPath)
                   /\ Len(now) = Len(was)
                   /\ \A i \in 1..Len(was) :
                         /\ now[i].content = was[i].content
                         /\ now[i].chunkIndex = was[i].chunkIndex
                         /\ now[i].id = newPath \o <<":", ":">> \o Decimal(was[i].chunkIndex)
                         /\ now[i].filePath = newPath
                         /\ now[i].fileLink = CreateFileLink(newPath)
                   /\ ~HasChunkSet(chunksByFile', oldPath)
                   /\ \A path \in Paths \ {oldPath, newPath} :
                         /\ HasChunkSet(chunksByFile', path) = HasChunkSet(chunksByFile, path)
                         /\ ChunkSet(chunksByFile', path) = ChunkSet(chunksByFile, path)

\* C7 renameFile(oldPath, newPath) for a path that has a chunk set: the chunk set of
\* newPath has the same length and at each position the same content and chunkIndex,
\* with id, filePath and fileLink those of newPath; oldPath has no chunk set; the
\* chunk sets of the other paths are as before.  (renameFile takes no text: no file
\* is read.)  When oldPath has no chunk set the registry is as before.
C7_RenameFrame == [][C7_Step]_vars

C7_Witness ==
    /\ ret.op = "renameFile"
    /\ ~HasChunkSet(chunksByFile, PathA)
    /\ Len(ChunkSet(chunksByFile, PathN)) = 2
    /\ Len(ChunkSet(chunksByFile, PathB)) = 1

C8_Step ==
    /\ (vectors' # vectors /\ ret'.op # "load") => isDirty'
    /\ (Idle /\ ~isDirty /\ Save)
       => /\ ret'.op = "save"
          /\ ret'.storageReads = 0 /\ ret'.storageWrites = 0
          /\ sv'.pc = "idle"
          /\ disk' = disk
    /\ (Idle /\ isDirty /\ Save) => sv'.pc = "read"
    /\ (sv.pc = "read" \/ sv.pc = "write") => isDirty
    /\ (sv.pc = "write" /\ ret'.saved)
       => /\ ~isDirty'
          /\ ret'.storageReads = 1 /\ ret'.storageWrites = 1
          /\ disk'.present /\ disk'.vectorStore.has
          /\ disk'.vectorStore.vectors = vectors

\* C8 save() touches the storage exactly when the store has unsaved changes: every
\* step that changes the vector map, other than load(), leaves isDirty set; save()
\* with isDirty clear returns without a storage read or write and leaves the
\* persisted data alone; save() with isDirty set reads the storage; and a save whose
\* write succeeded has cleared isDirty and persisted the vector map.
C8_SaveIffDirty == [][C8_Step]_vars

C8_Witness ==
    /\ ret.op = "save"
    /\ ret.storageReads = 0
    /\ ~isDirty
    /\ \E i \in 1..Len(vectors) : vectors[i].k = <<"a", ".", "m", "d", ":", ":", "0">>
    /\ disk.present /\ disk.vectorStore.has
    /\ disk.vectorStore.vectors = vectors

\* C9 When load() has returned, on a freshly constructed store, the store holds the
\* persisted vectors if the read succeeded and the persisted data has a vectorStore
\* container with version 1 and a vector map, and is empty otherwise: data absent, no
\* container, another version, no vector map, or a failed read.  load() always
\* returns.
C9_LoadTolerant ==
    ret.op = "load"
    => vectors = IF /\ ret.readOk
                    /\ disk.present
                    /\ disk.vectorStore.has
                    /\ disk.vectorStore.version = 1
                    /\ disk.vectorStore.hasVectors
                 THEN disk.vectorStore.vectors
                 ELSE <<>>

C9_Witness ==
    /\ ret.op = "load"
    /\ ret.readOk
    /\ disk.present /\ disk.vectorStore.has
    /\ disk.vectorStore.version = 2
    /\ disk.vectorStore.vectors # <<>>
    /\ vectors = <<>>

\* C10 When search(queryVector, limit, options) has returned: the results are ordered
\* by non-increasing score; their number is the smaller of limit and the number of
\* eligible records (not legacy, not excluded, matching the filter); each result is a
\* different eligible record with its similarity as score; no eligible record left
\* out scores more than a returned one; an empty store gives no result.
C10_SearchTopK ==
    ret.op = "search"
    => LET eligible == Candidates(vectors, excludedFolders, ret.options)
           results == ret.results
           Sim(e) == CosineSimilarity(ret.queryVector, e.v.vector)
           returned == {results[i].chunkId : i \in 1..Len(results)}
       IN /\ Len(results) = IF ret.limit < Len(eligible) THEN ret.limit ELSE Len(eligible)
          /\ \A i, j \in 1..Len(results) :
                i < j => /\ ~Less(results[i].score, results[j].score)
                         /\ results[i].chunkId # results[j].chunkId
          /\ \A i \in 1..Len(results) :
                \E k \in 1..Len(eligible) :
                    /\ eligible[k].k = results[i].chunkId
                    /\ results[i].score = Sim(eligible[k])
          /\ \A k \in 1..Len(eligible) :
                eligible[k].k \notin returned
                => \A i \in 1..Len(results) : ~Less(results[i].score, Sim(eligible[k]))
          /\ vectors = <<>> => results = <<>>

C10_Witness ==
    /\ ret.op = "search"
    /\ ret.limit = 2
    /\ Len(ret.results) = 2
    /\ Len(Candidates(vectors, excludedFolders, ret.options)) = 3
    /\ Less(ret.results[2].score, ret.results[1].score)
    /\ ret.results[1].chunkId = vectors[3].k

\* the stored record e has content and a file path
HasMetadata(e) ==
    /\ e.v.content # Undefined /\ e.v.content # <<>>
    /\ e.v.filePath # Undefined /\ e.v.filePath # <<>>

\* path lies in one of the folders
InFolders(path, folders) ==
    \E i \in 1..Len(folders) :
        folders[i] # <<>> /\ StartsWith(path, folders[i] \o <<"/">>)

\* C11 Whatever records the store holds and whatever the filter: no result of
\* search() has a file path in a configured excluded folder, every result is a stored
\* record that has content and a file path (no legacy record), and
\* hasLegacyVectors() answers true exactly when the store holds a record that lacks
\* content or file path.
C11_SearchHidesExcludedAndLegacy ==
    /\ ret.op = "search"
       => \A i \in 1..Len(ret.results) :
             /\ ~InFolders(ret.results[i].filePath, excludedFolders)
             /\ \E k \in 1..Len(vectors) :
                   /\ vectors[k].k = ret.results[i].chunkId
                   /\ HasMetadata(vectors[k])
                   /\ vectors[k].v.filePath = ret.results[i].filePath
    /\ ret.op = "hasLegacyVectors"
       => ret.result = (\E k \in 1..Len(vectors) : ~HasMetadata(vectors[k]))

C11_Witness ==
    /\ ret.op = "search"
    /\ ret.options = NoOptions
    /\ ret.limit = MaxLimit
    /\ Len(vectors) = 3
    /\ \E k \in 1..Len(vectors) : ~HasMetadata(vectors[k])
    /\ \E k \in 1..Len(vectors) :
          HasMetadata(vectors[k]) /\ InFolders(vectors[k].v.filePath, excludedFolders)
    /\ Len(ret.results) = 1

\* the sum of the squares of the components of a vector
SquaredNorm(a) == SumProducts(a, a, 1)

\* the stored vector a result was computed from
VectorOf(chunkId) ==
    vectors[CHOOSE k \in 1..Len(vectors) : vectors[k].k = chunkId].v.vector

\* C12 Every result of search() has a score between 0 and 1, both included, and the
\* score is 0 when the query vector and the stored vector differ in length or one of
\* them has norm 0.
C12_ScoreInUnitInterval ==
    ret.op = "search"
    => \A i \in 1..Len(ret.results) :
          LET score == ret.results[i].score
              stored == VectorOf(ret.results[i].chunkId)
          IN /\ score.den > 0
             /\ 0 <= score.num /\ score.num <= score.den
             /\ (\/ Len(stored) # Len(ret.queryVector)
                 \/ SquaredNorm(stored) = 0
                 \/ SquaredNorm(ret.queryVector) = 0) => score.num = 0

\* a configured folder without its trailing slash
FolderPath(folder) ==
    IF folder # <<>> /\ folder[Len(folder)] = "/" THEN SubSeq(folder, 1, Len(folder) - 1)
    ELSE folder

\* path is inside one of the configured folders (an empty entry configures nothing)
UnderFolders(path, folders) ==
    \E i \in 1..Len(folders) :
        FolderPath(folders[i]) # <<>> /\ StartsWith(path, FolderPath(folders[i]) \o <<"/">>)

\* the record e has a file path inside a configured folder
Purgeable(e) == e.v.filePath # Undefined /\ UnderFolders(e.v.filePath, excludedFolders)

C13_Step ==
    PurgeExcludedVectors
    => /\ \A k \in 1..Len(vectors) :
             Purgeable(vectors[k]) <=> ~(\E j \in 1..Len(vectors') : vectors'[j] = vectors[k])
       /\ \A j \in 1..Len(vectors') : \E k \in 1..Len(vectors) : vectors[k] = vectors'[j]
       /\ ret'.count = Len(vectors) - Len(vectors')
       /\ ret.op = "purgeExcludedVectors" => (ret'.count = 0 /\ vectors' = vectors)

\* C13 purgeExcludedVectors() deletes exactly the records whose file path is inside a
\* configured excluded folder (with folder "d": the records of "d/b.md" go, those of
\* "dd/c.md" and "a.md" stay), returns the number of records it deleted, and a call
\* that follows another at once deletes nothing and returns 0.
C13_PurgeExact == [][C13_Step]_vars

C13_Witness ==
    /\ ret.op = "purgeExcludedVectors"
    /\ ret.count = 1
    /\ excludedFolders = << <<"d">> >>
    /\ Len(vectors) = 2
    /\ \E k \in 1..Len(vectors) : vectors[k].v.filePath = PathC
    /\ \E k \in 1..Len(vectors) : vectors[k].v.filePath = PathA

\* C14 isExcluded(path) is true if and only if, for some configured excluded folder,
\* the path starts with the folder followed by "/" or the path is the folder path
\* itself.
C14_ExclusionCheck ==
    ret.op = "isExcluded"
    => ret.result = (\/ UnderFolders(ret.filePath, excludedFolders)
                     \/ \E i \in 1..Len(excludedFolders) :
                           /\ excludedFolders[i] # <<>>
                           /\ \/ ret.filePath = excludedFolders[i]
                              \/ ret.filePath = FolderPath(excludedFolders[i]))

\* the tags of a document, each in lower case with a leading "#"
DocumentTags(path) ==
    LET cache == Metadata(path)
    IN {NormalizedTag(cache.tags[i]) : i \in 1..Len(cache.tags)}
           \cup {NormalizedTag(cache.fmTags[i]) : i \in 1..Len(cache.fmTags)}
           \cup (IF cache.fmTag # <<>> THEN {NormalizedTag(cache.fmTag)} ELSE {})

InFiles(path, files) == \E i \in 1..Len(files) : files[i] = path

InFilterFolders(path, folders) ==
    \E i \in 1..Len(folders) :
        path = folders[i] \/ StartsWith(path, FolderPath(folders[i]) \o <<"/">>)

HasFilterTag(path, tags) ==
    \E i \in 1..Len(tags) :
        \E t \in DocumentTags(path) :
            t = NormalizedTag(tags[i]) \/ StartsWith(t, NormalizedTag(tags[i]) \o <<"/">>)

\* options with entry added to one of its lists
WithFile(options, entry) == [options EXCEPT !.files = Append(@, entry)]

WithFolder(options, entry) == [options EXCEPT !.folders = Append(@, entry)]

WithTag(options, entry) == [options EXCEPT !.tags = Append(@, entry)]

\* C15 The filter is a union: when the options are absent, or files, folders and
\* tags are all empty, every document matches; otherwise a document matches exactly
\* when its path is listed in files, or it is a folders entry or is under one, or one
\* of its tags is a tags entry or is nested under one.  So a document that matches
\* a filter with some entry still matches after an entry is added to any of the lists.
C15_FilterUnion ==
    ret.op = "matchesFilter"
    => LET o == ret.options
           path == ret.filePath
           unfiltered == \/ ~o.given
                         \/ (o.files = <<>> /\ o.folders = <<>> /\ o.tags = <<>>)
       IN /\ unfiltered => ret.result
          /\ ~unfiltered
             => ret.result = (\/ InFiles(path, o.files)
                              \/ InFilterFolders(path, o.folders)
                              \/ HasFilterTag(path, o.tags))
          /\ (ret.result /\ ~unfiltered)
             => /\ MatchesFilter(path, WithFile(o, PathN))
                /\ MatchesFilter(path, WithFolder(o, <<"x">>))
                /\ MatchesFilter(path, WithTag(o, <<"z">>))

C15_Witness ==
    /\ ret.op = "matchesFilter"
    /\ ret.filePath = PathB
    /\ ret.options.files = <<PathA>>
    /\ ret.options.folders = << <<"x">>, <<"d", "d">> >>
    /\ ret.options.tags = << <<"p">> >>
    /\ ret.result

\* C16 A filter with the single folder entry F matches the documents whose path is F
\* followed by "/" and anything, and the document whose path is F, and no document
\* whose path only starts with the characters of F.
C16_FolderBoundary ==
    (/\ ret.op = "matchesFilter"
     /\ ret.options.given
     /\ ret.options.files = <<>> /\ ret.options.tags = <<>>
     /\ Len(ret.options.folders) = 1)
    => LET F == ret.options.folders[1]
           path == ret.filePath
       IN /\ StartsWith(path, FolderPath(F) \o <<"/">>) => ret.result
          /\ path = F => ret.result
          /\ (path # F /\ ~StartsWith(path, FolderPath(F) \o <<"/">>)) => ~ret.result

C16_Witness ==
    /\ ret.op = "matchesFilter"
    /\ ret.options.given
    /\ ret.options.files = <<>> /\ ret.options.tags = <<>>
    /\ ret.options.folders = << <<"d">> >>
    /\ ret.filePath = PathC
    /\ ~ret.result

(***************************************************************************)
(* C17  Hybrid ordering.  The results of a hybrid search are members of    *)
(* the pool (the top poolSize records by vector score), at most limit of   *)
(* them, ordered by non-increasing 0.7 * vector score + 0.3 * keyword      *)
(* score; of two pool members with equal vector score, one holding every   *)
(* keyword of the query and one holding none, the first comes strictly     *)
(* before the second whenever the second is returned.                      *)
(***************************************************************************)
\* the vector score of a returned result: that of its record in the pool
PoolScore(pool, chunkId) ==
    CHOOSE i \in 1..Len(pool) : pool[i].chunkId = chunkId

\* x = y as quotients
SameNumber(x, y) == x.num * y.den = y.num * x.den

\* position of a chunk id in a result sequence, 0 when it is not there
PositionOf(results, chunkId) ==
    IF \E i \in 1..Len(results) : results[i].chunkId = chunkId
    THEN CHOOSE i \in 1..Len(results) : results[i].chunkId = chunkId
    ELSE 0

\* 10 * den times the blend 0.7 * v + 0.3 * k, compared without division
BlendLess(v1, k1, v2, k2) ==
    (7 * v1.num * k1.den + 3 * k1.num * v1.den) * (v2.den * k2.den)
        < (7 * v2.num * k2.den + 3 * k2.num * v2.den) * (v1.den * k1.den)

\* the share of the query's keywords (words of three characters or more, case
\* ignored) that the text contains
KeywordShare(query, text) ==
    LET words == {w \in {SubSeq(ToLowerCase(query), i, j) :
                             i \in 1..Len(query), j \in 1..Len(query)} :
                     /\ Len(w) >= 3
                     /\ \A c \in 1..Len(w) : w[c] \notin WhiteSpace
                     /\ \E i \in 1..Len(query) :
                           /\ i + Len(w) - 1 <= Len(query)
                           /\ SubSeq(ToLowerCase(query), i, i + Len(w) - 1) = w
                           /\ (i = 1 \/ query[i - 1] \in WhiteSpace)
                           /\ (i + Len(w) - 1 = Len(query) \/ query[i + Len(w)] \in WhiteSpace)}
    IN [words |-> words,
        matched |-> {w \in words : Includes(ToLowerCase(text), w)}]

C17_HybridOrdering ==
    ret.op = "hybridSearch" /\ ~ret.search.thrown /\ ret.search.storeSearches # <<>> =>
        LET results == ret.search.results
            pool == ret.search.pool
            all == Search(vectors, excludedFolders, ret.search.storeSearches[1].queryVector,
                          Len(vectors), ret.options)
            V(chunkId) == pool[PoolScore(pool, chunkId)].score
            K(r) == LET share == KeywordShare(ret.queryText, r.content)
                    IN IF share.words = {} THEN Zero
                       ELSE Number(Cardinality(share.matched), Cardinality(share.words))
        IN /\ pool = Slice(all, 0, ret.poolSize)
           /\ Len(results) = Min(ret.limit, Len(pool))
           /\ \A i \in 1..Len(results) :
                 \E j \in 1..Len(pool) : /\ pool[j].chunkId = results[i].chunkId
                                         /\ pool[j].content = results[i].content
                                         /\ pool[j].filePath = results[i].filePath
           /\ \A i, j \in 1..Len(results) : i # j => results[i].chunkId # results[j].chunkId
           /\ \A i \in 1..(Len(results) - 1) :
                 ~BlendLess(V(results[i].chunkId), K(results[i]),
                            V(results[i + 1].chunkId), K(results[i + 1]))
           \* no pool member left out outranks a returned one
           /\ \A j \in 1..Len(pool) :
                 PositionOf(results, pool[j].chunkId) = 0 =>
                    \A i \in 1..Len(results) :
                        ~BlendLess(V(results[i].chunkId), K(results[i]),
                                   pool[j].score, K(pool[j]))
           /\ \A a, b \in 1..Len(pool) :
                 /\ SameNumber(pool[a].score, pool[b].score)
                 /\ KeywordShare(ret.queryText, pool[a].content).words # {}
                 /\ K(pool[a]).num = K(pool[a]).den
                 /\ K(pool[b]).num = 0
                 /\ PositionOf(results, pool[b].chunkId) # 0
                 => /\ PositionOf(results, pool[a].chunkId) # 0
                    /\ PositionOf(results, pool[a].chunkId)
                           < PositionOf(results, pool[b].chunkId)

\* a search whose pool holds, in this order, a record without the keyword and a
\* record with it, of equal vector score, and that returned both in the other order
C17_Witness ==
    /\ ret.op = "hybridSearch"
    /\ Len(ret.search.pool) >= 2
    /\ Len(ret.search.results) >= 2
    /\ \E a, b \in 1..Len(ret.search.pool) :
          /\ b < a
          /\ SameNumber(ret.search.pool[a].score, ret.search.pool[b].score)
          /\ SameNumber(CalculateKeywordScore(ret.queryText, ret.search.pool[a].content),
                        Number(1, 1))
          /\ CalculateKeywordScore(ret.queryText, ret.search.pool[b].content).num = 0
          /\ PositionOf(ret.search.results, ret.search.pool[a].chunkId) = 1
          /\ PositionOf(ret.search.results, ret.search.pool[b].chunkId) > 1

(***************************************************************************)
(* C18  Hybrid search never throws to the caller.  When the query          *)
(* embedding cannot be obtained (no key set, the embedding service fails   *)
(* or throws, or it answers with no embedding) the search returns the      *)
(* empty sequence and does not search the vector store.                    *)
(***************************************************************************)
\* the query embedding is not available: no key, or the service did not answer
\* with an embedding
NoQueryEmbedding == ~apiKey \/ ret.outcome # "ok"

C18_HybridSearchNoThrow ==
    ret.op = "hybridSearch" =>
        /\ ~ret.search.thrown
        /\ NoQueryEmbedding =>
              /\ ret.search.results = <<>>
              /\ ret.search.storeSearches = <<>>
        /\ ~apiKey => ret.search.serviceCalls = 0

\* a search with the key set whose service call failed, on a store with records
C18_Witness ==
    /\ ret.op = "hybridSearch"
    /\ apiKey
    /\ ret.outcome \in {"error", "throw", "short"}
    /\ ret.search.serviceCalls = 1
    /\ vectors # <<>>
    /\ ret.limit > 0
    /\ ret.poolSize > 0

(***************************************************************************)
(* C19  In every hybrid search issued by the system, by ask() with the     *)
(* values of the settings and by findSimilar, the pool size passed to the  *)
(* vector stage is at least the final result limit.                        *)
(***************************************************************************)
C19_PoolAtLeastLimit ==
    /\ ret.op = "ask" =>
          \A i \in 1..Len(ret.answer.searches) :
              ret.answer.searches[i].poolSize >= ret.answer.searches[i].limit
    /\ ret.op = "findSimilar" => ret.poolSize >= ret.limit

(***************************************************************************)
(* C20  ask() with no key set on the engine returns at once a string that  *)
(* begins with "Error:"; it searches nothing and calls neither the         *)
(* embedding service nor the chat service.                                 *)
(***************************************************************************)
C20_AskWithoutKey ==
    ret.op = "ask" /\ ~ragEngine.apiKey =>
        /\ StartsWith(ret.answer.result, <<"E", "r", "r", "o", "r", ":">>)
        /\ ret.answer.searches = <<>>
        /\ ret.answer.storeSearches = <<>>
        /\ ret.answer.serviceCalls = 0
        /\ ret.answer.chatCalls = <<>>

\* a question asked of an engine without a key while the coordinator has one, the
\* store has records and both services would answer
C20_Witness ==
    /\ ret.op = "ask"
    /\ ~ragEngine.apiKey
    /\ apiKey
    /\ vectors # <<>>
    /\ ret.outcome = "ok"
    /\ ret.chatOutcome = "ok"

(***************************************************************************)
(* C21  With a key set on the engine, ask() does not throw and returns a   *)
(* string.  It calls the chat service exactly once, also when retrieval    *)
(* found nothing or the embedding service failed, with the messages        *)
(* [system prompt] ++ conversation history ++ [current query]; when the    *)
(* chat service reports an error the string returned is "Error: "          *)
(* followed by the error message, otherwise it is the model's answer.      *)
(***************************************************************************)
C21_AskWithKey ==
    ret.op = "ask" /\ ragEngine.apiKey =>
        LET calls == ret.answer.chatCalls
            history == ret.conversationHistory
        IN /\ ~ret.answer.thrown
           /\ Len(calls) = 1
           /\ Len(calls[1].messages) = Len(history) + 2
           /\ calls[1].messages[1].role = "system"
           /\ calls[1].messages[1].context =
                 [i \in 1..Len(ret.answer.retrieved) |->
                     [source |-> ret.answer.retrieved[i].fileLink,
                      relevance |-> ret.answer.retrieved[i].score,
                      content |-> ret.answer.retrieved[i].content]]
           /\ \A i \in 1..Len(history) : calls[1].messages[i + 1] = history[i]
           /\ calls[1].messages[Len(history) + 2] =
                 [role |-> "user", content |-> ret.userQuery]
           /\ ret.chatOutcome # "ok" =>
                 ret.answer.result =
                     <<"E", "r", "r", "o", "r", ":", " ">> \o ChatError(ret.chatOutcome)
           /\ ret.chatOutcome = "ok" => ret.answer.result = ChatContent

\* a question with a history, asked with a key on the engine while the embedding
\* service fails, so that nothing is retrieved, and the chat service reports an error
C21_Witness ==
    /\ ret.op = "ask"
    /\ ragEngine.apiKey
    /\ apiKey
    /\ ret.outcome = "error"
    /\ ret.answer.retrieved = <<>>
    /\ ret.conversationHistory # <<>>
    /\ ret.chatOutcome = "throw"
    /\ Len(ret.answer.chatCalls) = 1

(***************************************************************************)
(* C22  No raw document content reaches the embedding service.  In every   *)
(* state with redaction enabled, no chunk content of the registry, no text *)
(* of a batch to be sent to the embedding service and no content stored in *)
(* the vector store holds a substring that a built-in pattern or a custom  *)
(* pattern of the current settings matches: every content is what          *)
(* redact() makes of the document text, whenever the chunk was created.    *)
(***************************************************************************)
\* the text holds nothing that redact() would replace under the settings pm
Redacted(text, pm) == \A i \in 1..Len(text) : text[i] \notin ({"K"} \cup pm.customPatterns)

C22_NoRawContent ==
    privacy.enabled =>
        /\ \A i \in 1..Len(GetAllChunks(chunksByFile)) :
              Redacted(GetAllChunks(chunksByFile)[i].content, privacy)
        /\ em.pc = "batch" =>
              \A j \in 1..Len(em.chunksToEmbed) :
                  Redacted(em.chunksToEmbed[j].chunk.content, privacy)
        /\ \A i \in 1..Len(vectors) :
              ~Falsy(vectors[i].v.content) => Redacted(vectors[i].v.content, privacy)

(***************************************************************************)
(* The text splitter                                                       *)
(***************************************************************************)
\* C23: constructing a splitter with chunkOverlap >= chunkSize throws, so no instance
\* with such a configuration ever exists; with chunkOverlap < chunkSize the constructor
\* returns the instance, and splitText on an instance returns (a finite list of at
\* most one chunk per character of the text)
C23_ConstructorGuard ==
    /\ splitter.exists => splitter.config.chunkOverlap < splitter.config.chunkSize
    /\ ret.op = "newSplitter" =>
          /\ ret.thrown <=> ret.config.chunkOverlap >= ret.config.chunkSize
          /\ ~ret.thrown => splitter = NewSplitter(ret.config)
    /\ ret.op = "splitText" =>
          /\ ret.config.chunkOverlap < ret.config.chunkSize
          /\ Len(ret.chunks) <= Len(ret.text)

\* a construction with chunkOverlap = chunkSize has thrown and there is no instance
C23_Witness ==
    /\ ret.op = "newSplitter"
    /\ ret.config.chunkOverlap = ret.config.chunkSize
    /\ ret.thrown
    /\ ~splitter.exists

\* C24: every chunk splitText returns is at most chunkSize characters long
C24_ChunkLengthBound ==
    ret.op = "splitText" =>
        \A i \in 1..Len(ret.chunks) : Len(ret.chunks[i]) <= ret.config.chunkSize

\* C25: splitText of an empty or whitespace-only text returns no chunk, and of a text
\* with a non-whitespace character and at most chunkSize characters exactly one chunk,
\* the text trimmed
C25_ShortText ==
    ret.op = "splitText" =>
        /\ Trim(ret.text) = <<>> => ret.chunks = <<>>
        /\ Trim(ret.text) # <<>> /\ Len(ret.text) <= ret.config.chunkSize
              => ret.chunks = <<Trim(ret.text)>>

\* the text holds none of the separators "\n\n", "\n", ". " and " "
SeparatorFree(text) ==
    \A i \in 1..(Len(Separators) - 1) : ~Includes(text, Separators[i])

\* the offsets 0, s, 2s, ... below the length of the text, s = chunkSize - chunkOverlap
WindowOffsets(text, cfg) ==
    {k * (cfg.chunkSize - cfg.chunkOverlap) :
        k \in 0..((Len(text) - 1) \div (cfg.chunkSize - cfg.chunkOverlap))}

\* the chunk is the text as it stands from the 0-based offset on
BeginsAt(text, chunk, offset) ==
    /\ offset + Len(chunk) <= Len(text)
    /\ SubSeq(text, offset + 1, offset + Len(chunk)) = chunk

\* C26: a text longer than chunkSize with none of the separators yields one chunk per
\* character window, the chunks beginning at the offsets 0, s, 2s, ... of the text
C26_CharacterWindows ==
    ret.op = "splitText" /\ SeparatorFree(ret.text)
                         /\ Len(ret.text) > ret.config.chunkSize
        => LET s == ret.config.chunkSize - ret.config.chunkOverlap
           IN /\ Len(ret.chunks) = Cardinality(WindowOffsets(ret.text, ret.config))
              /\ \A i \in 1..Len(ret.chunks) :
                    BeginsAt(ret.text, ret.chunks[i], (i - 1) * s)

\* the last n characters of s, all of s when it has fewer
LastChars(s, n) == SubSeq(s, IF Len(s) > n THEN Len(s) - n + 1 ELSE 1, Len(s))

\* chunk i + 1 of the chunks pushed was started, in a loop over separator pieces, with
\* overlap text taken from chunk i
OverlapBoundary(pushed, i) ==
    /\ pushed[i + 1].separator # <<>>
    /\ pushed[i + 1].origin # <<>>
    /\ pushed[i + 1].origin = pushed[i].raw

Covers(text, chunks, starts) ==
    /\ \A i \in 1..Len(chunks) : BeginsAt(text, chunks[i], starts[i])
    /\ \A i \in 1..(Len(chunks) - 1) : starts[i] <= starts[i + 1]
    /\ \A p \in 1..Len(text) :
          text[p] \notin WhiteSpace
              => \E i \in 1..Len(chunks) :
                    starts[i] < p /\ p <= starts[i] + Len(chunks[i])

\* C28: every chunk splitText returns is a contiguous slice of the text, the chunks are
\* in document order, and together they hold the text up to trimmed whitespace
C28_SplitCoverage ==
    ret.op = "splitText" =>
        /\ \A i \in 1..Len(ret.chunks) : Includes(ret.text, ret.chunks[i])
        /\ \E starts \in [1..Len(ret.chunks) -> 0..Len(ret.text)] :
              Covers(ret.text, ret.chunks, starts)

(***************************************************************************)
(* Debounced re-indexing                                                   *)
(***************************************************************************)
\* the update of the document at path is pending
PendingUpdate(d, path) == d.pending /\ d.file = path

\* C29: a pending update of a document stays pending until the timer runs out and the
\* document is re-chunked (and re-embedded when a key is set); a modify event on
\* another document does not drop it
C29_PendingUpdateKept ==
    [][\A path \in MdPaths :
          PendingUpdate(debounced, path)
              => \/ PendingUpdate(debounced', path)
                 \/ /\ ~debounced'.pending
                    /\ ret'.op \in {"updateFile", "embedFile", "pending"}]_vars

(***************************************************************************)
(* Batches of one embedding operation                                      *)
(***************************************************************************)
\* the number of batches of k chunks
BatchCount(k) == (k + BatchSize - 1) \div BatchSize

\* one iteration of the batch loop: the batches before it were all sent and answered,
\* it sends the next at most BatchSize chunks to embed in their order in one call, and
\* of an answer without error embedding j is stored under the id of chunk j of the batch
C30_Step ==
    em.pc = "batch" =>
        LET todo == em.chunksToEmbed
            after == RunningAfter
            last == after.calls[Len(after.calls)]
            size == Min(BatchSize, Len(todo) - em.i)
        IN /\ em.i = Len(em.calls) * BatchSize
           /\ Len(after.calls) = Len(em.calls) + 1
           /\ size >= 1
           /\ last.ids = [j \in 1..size |-> todo[em.i + j].chunk.id]
           /\ last.outcome \in {"ok", "short"}
              => \A j \in 1..size :
                    (last.outcome = "ok" \/ j < size)
                        => /\ MapHas(vectors', last.ids[j])
                           /\ MapGet(vectors', last.ids[j]).vector
                                 = EmbeddingOf(todo[em.i + j].chunk.content)
           /\ em'.pc = "batch" => em'.i = em.i + BatchSize /\ em'.i < Len(todo)
           /\ em'.pc # "batch" => Len(after.calls) = BatchCount(Len(todo))

\* C30: within one embedding operation the chunks to embed are sent in consecutive
\* batches of at most BatchSize chunks in input order, one service call per batch
\* (BatchCount(k) calls for k chunks), each call after the answer to the one before was
\* handled, and embedding j of an answer is stored under the id of chunk j of its batch
C30_BatchesInOrder == [][C30_Step]_vars

\* an operation sent two batches, the second shorter than the first, both answered
\* with one embedding per text, and the vectors stored differ within the first batch
C30_Witness ==
    /\ ret.op = "embedAllFiles"
    /\ Len(ret.calls) = 2
    /\ ret.calls[1].outcome = "ok" /\ ret.calls[2].outcome = "ok"
    /\ Len(ret.calls[1].ids) = BatchSize
    /\ Len(ret.calls[2].ids) < BatchSize
    /\ ret.processed = BatchSize + Len(ret.calls[2].ids)
    /\ MapHas(vectors, ret.calls[1].ids[1]) /\ MapHas(vectors, ret.calls[1].ids[2])
    /\ MapGet(vectors, ret.calls[1].ids[1]).vector
          # MapGet(vectors, ret.calls[1].ids[2]).vector

(***************************************************************************)
(* Embedding without a key                                                 *)
(***************************************************************************)
\* the step is a call of embedChunks, embedFile or embedAllFiles
EmbedCalled ==
    \/ \E chunks \in ChunkLists : EmbedChunks(chunks)
    \/ \E path \in MdPaths : EmbedFile(path)
    \/ EmbedAllFiles

\* a call without a key returns the error with all counters 0, calls the service not
\* once and leaves the vectors and the dirty flag as they were
C31_Step ==
    Idle /\ ~apiKey /\ EmbedCalled
        => /\ ret'.error = "API key not set"
           /\ ret'.processed = 0 /\ ret'.skipped = 0 /\ ret'.failed = 0
           /\ ret'.calls = <<>>
           /\ vectors' = vectors
           /\ isDirty' = isDirty

\* C31: embedChunks, embedFile and embedAllFiles called with no key set return an error
\* result with processed = skipped = failed = 0, call the embedding service not once
\* and leave the vector map and the dirty flag of the store exactly as they were
C31_MissingCredentialFailFast == [][C31_Step]_vars

(***************************************************************************)
(* Legacy records and Rebuild Index                                        *)
(***************************************************************************)
\* every call of the embedding service was answered with one embedding per text
ServiceWorked(calls) == \A i \in 1..Len(calls) : calls[i].outcome = "ok"

\* search can return the chunk: it has a stored record with its content metadata
Retrievable(vs, chunk) ==
    /\ MapHas(vs, chunk.id)
    /\ ~Falsy(MapGet(vs, chunk.id).content)
    /\ ~Falsy(MapGet(vs, chunk.id).filePath)

\* C32: when Rebuild Index has run to its end on a store with legacy records, with a
\* key and an embedding service that answered every call, the store has no legacy
\* record left and every chunk of the registry has a record search can return
C32_LegacyRepair ==
    ret.op = "rebuildIndex" /\ ret.embedded /\ ServiceWorked(ret.calls)
        => /\ ~HasLegacyVectors(vectors)
           /\ \A i \in 1..Len(GetAllChunks(chunksByFile)) :
                 Retrievable(vectors, GetAllChunks(chunksByFile)[i])

(***************************************************************************)
(* Persistence of the store                                                *)
(***************************************************************************)
\* the vector map of the persisted container, empty when there is none
PersistedMap(data) ==
    IF data.present /\ data.vectorStore.has /\ data.vectorStore.hasVectors
    THEN data.vectorStore.vectors
    ELSE <<>>

\* the storage writes a returned operation made
StorageWrites(k) == IF "storageWrites" \in DOMAIN k THEN k.storageWrites ELSE 0

\* C33: when embedFile(path) has returned, with a key set and the storage working, the
\* dirty flag is clear and the persisted container holds the vectors of the store,
\* also when stale vectors were deleted and no chunk was left to embed, and the
\* storage was written at most once
C33_PersistedAfterEmbedFile ==
    ret.op = "embedFile" /\ ret.error = NoError
        => /\ ~isDirty
           /\ PersistedMap(disk) = vectors
           /\ StorageWrites(ret) <= 1

\* C34: whenever no save() is in progress and the dirty flag is clear, the persisted
\* container holds the vectors of the store: an upsert or delete made while a save()
\* is suspended on its storage read or write is in that write, or leaves the flag set
C34_CleanMeansPersisted ==
    sv.pc = "idle" /\ ~isDirty => PersistedMap(disk) = vectors

\* the step is a change made in the settings tab, which ends with saveSettings()
SettingsChanged ==
    \/ \E value \in BOOLEAN : SetEnableRedaction(value)
    \/ \E value \in CustomPatternSets : SetCustomRedactionPatterns(value)
    \/ \E value \in BOOLEAN : SetOpenRouterApiKey(value)

\* C35: saveSettings() leaves the persisted vector container as it was: what the last
\* successful save() of the store has persisted is neither removed nor put back to
\* the container found at startup, so a later load() gets those vectors
C35_SettingsKeepVectors ==
    [][SettingsChanged => PersistedMap(disk') = PersistedMap(disk)]_vars

(***************************************************************************)
(* Delete events                                                           *)
(***************************************************************************)
\* C36: once the delete event of a document was handled and nothing is in flight, the
\* store holds no vector whose id starts with the document's path and "::", also when
\* an embed of the document's chunks was suspended as the event arrived (a document
\* is absent from the registry exactly from its delete event to its next update)
C36_DeletedStaysDeleted ==
    Idle => \A path \in MdPaths :
               ~MapHas(chunksByFile, path) => IdsUnder(vectors, path) = {}

(***************************************************************************)
(* The counters of an embed                                                *)
(***************************************************************************)
Counted(result) == result.processed + result.skipped + result.failed

\* the chunks an embed has accounted for, plus those its batch loop has yet to send:
\* in the loop, while its save is suspended, and once it returned
EmbedTally(e, s, r) ==
    IF e.pc = "batch" THEN Counted(e.result) + (Len(e.chunksToEmbed) - e.i)
    ELSE IF s.pc # "idle" THEN Counted(s.k)
    ELSE Counted(r)

EmbedInFlight == em.pc \in {"batch", "save"}

C37_Step ==
    /\ \A chunks \in ChunkLists :
          apiKey /\ EmbedChunks(chunks) => EmbedTally(em', sv', ret') = Len(chunks)
    /\ \A path \in MdPaths :
          apiKey /\ EmbedFile(path)
          => EmbedTally(em', sv', ret') = Len(GetChunksForFile(chunksByFile, path))
    /\ apiKey /\ EmbedAllFiles
       => EmbedTally(em', sv', ret') = Len(GetAllChunks(chunksByFile))
    /\ EmbedInFlight => EmbedTally(em', sv', ret') = EmbedTally(em, sv, ret)

\* C37: for every embed of a list of chunks with the key set, processed + skipped +
\* failed of the result equals the number of chunks of the list, whatever vectors were
\* valid and however the service answered each batch (error, throw, short response):
\* the tally equals the length of the list when the embed starts and no step of the
\* embed, up to its return, changes it
C37_CountConservation == [][C37_Step]_vars

C37_Witness ==
    /\ ret.op = "embedAllFiles"
    /\ Len(ret.calls) = 2
    /\ ret.calls[1].outcome = "short"
    /\ ret.calls[2].outcome = "throw"
    /\ ret.skipped > 0
    /\ ret.processed > 0
    /\ ret.failed > 0
    /\ Counted(ret) = Len(GetAllChunks(chunksByFile))

(***************************************************************************)
(* Skipping and retrying                                                   *)
(***************************************************************************)
\* an embed that got past the check of the key has returned
EmbedReturned ==
    /\ \/ ret.op \in {"embedFile", "embedAllFiles"}
       \/ ret.op = "rebuildIndex" /\ ret.embedded
    /\ ret.error = NoError

\* the chunks that embed was called with (the registry is as it was at the call)
EmbedInput ==
    IF ret.op = "embedFile" THEN GetChunksForFile(chunksByFile, ret.path)
    ELSE GetAllChunks(chunksByFile)

IsValid(vs, chunk) == HasValidVector(vs, chunk.id, HashContent(chunk.content))

\* the record stored under the id of the chunk has its content, path and link
Carries(vs, chunk) ==
    /\ MapHas(vs, chunk.id)
    /\ MapGet(vs, chunk.id).content = chunk.content
    /\ MapGet(vs, chunk.id).filePath = chunk.filePath
    /\ MapGet(vs, chunk.id).fileLink = chunk.fileLink

NotValid(vs, chunks) == {i \in 1..Len(chunks) : ~IsValid(vs, chunks[i])}

C38_Returned ==
    EmbedReturned
    => /\ Cardinality(NotValid(vectors, EmbedInput)) = ret.failed
       /\ ret.failed = 0
          => \A i \in 1..Len(EmbedInput) :
                IsValid(vectors, EmbedInput[i]) /\ Carries(vectors, EmbedInput[i])

\* the embed repeated at once: what it skips, sends and returns
Repeated ==
    /\ ret.failed = 0
       => /\ ret'.op = ret.op
          /\ ret'.calls = <<>>
          /\ ret'.processed = 0
          /\ ret'.skipped = Len(EmbedInput)
    /\ ret.failed > 0
       => /\ em'.pc = "batch"
          /\ em'.result.skipped = Len(EmbedInput) - ret.failed
          /\ \A i \in 1..Len(EmbedInput) :
                (\E j \in 1..Len(em'.chunksToEmbed) :
                    em'.chunksToEmbed[j].chunk = EmbedInput[i])
                <=> ~IsValid(vectors, EmbedInput[i])

C38_Step ==
    EmbedReturned /\ apiKey
    => /\ \A path \in MdPaths :
            ret.op = "embedFile" /\ ret.path = path /\ EmbedFile(path) => Repeated
       /\ ret.op = "embedAllFiles" /\ EmbedAllFiles => Repeated

\* C38: when an embed returns with failed = 0 and no error, every chunk it was called
\* with has a valid stored vector whose record carries the chunk's content, path and
\* link; the chunks counted as failed are not valid afterwards, so an embed repeated
\* at once sends exactly them, and after a full success it skips every chunk and
\* calls the service not at all
C38_SkipRetryConverges == []C38_Returned /\ [][C38_Step]_vars

(***************************************************************************)
(* Rename events                                                           *)
(***************************************************************************)
\* the document has chunks and every one of them has a valid stored vector
AllValid(cbf, vs, path) ==
    /\ Len(GetChunksForFile(cbf, path)) > 0
    /\ \A i \in 1..Len(GetChunksForFile(cbf, path)) :
          IsValid(vs, GetChunksForFile(cbf, path)[i])

C39_Step ==
    \A path \in MdPaths :
       /\ \A oldPath \in MdPaths :
             AllValid(chunksByFile, vectors, oldPath) /\ RenameEvent(oldPath, path)
             => AllValid(chunksByFile', vectors', path)
       /\ AllValid(chunksByFile, vectors, path) /\ sv.pc # "idle" /\ em.pc = "idle"
          => AllValid(chunksByFile', vectors', path)
       /\ AllValid(chunksByFile, vectors, path) /\ apiKey
             /\ EmbedChunks(GetChunksForFile(chunksByFile, path))
          => /\ ret'.op = "embedChunks"
             /\ ret'.error = NoError
             /\ ret'.processed = 0
             /\ ret'.skipped = Len(GetChunksForFile(chunksByFile, path))
             /\ ret'.calls = <<>>

\* C39: when every chunk of oldPath has a valid stored vector, then after the rename
\* event (renameFile and renameFileVectors) every chunk of newPath has one, while the
\* save of renameFileVectors runs and after it, and an embed of the chunks of newPath
\* skips every chunk: processed is 0 and the service is not called
C39_RenameKeepsValid == [][C39_Step]_vars

\* the rename event of an embedded document with two chunks has moved its vectors
\* and saved them, and both chunks are valid under the new path
C39_Witness ==
    /\ ret.op = "renameEvent"
    /\ ret.storageWrites = 1
    /\ ~MapHas(chunksByFile, PathA)
    /\ Len(GetChunksForFile(chunksByFile, PathB)) = 2
    /\ AllValid(chunksByFile, vectors, PathB)
    /\ GetChunkIdsForFile(vectors, PathA) = <<>>

====
